---- MODULE Spec2Model ----
(***************************************************************************)
(* Model of ActionsDAG (src/Interpreters/ActionsDAG.cpp): the node store,  *)
(* the inputs list, the name index, the builders, the pruner, project,     *)
(* make_converting_actions, merge and split.                               *)
(*                                                                         *)
(* A node is a record; its identity (its address in the std::list) is the  *)
(* natural number in field id.  The store is the sequence of nodes in list *)
(* order; inputs, index and children are sequences of ids.  An address has *)
(* no meaning beyond identity: between two calls the state names the node  *)
(* at position i of the store by i (Canon); within one call addresses are  *)
(* stable, so a result can be compared with the DAG the call started from. *)
(***************************************************************************)
EXTENDS Integers, Sequences, FiniteSets, TLC

VARIABLES dag, pair, op, err, conv, context

vars == <<dag, pair, op, err, conv, context>>

(***************************************************************************)
(* Bounds of the exploration.                                              *)
(***************************************************************************)
\* builders are not called on a store that already holds MaxNodes nodes
MaxNodes == 2
\* split is not called on a store that holds more than MaxSplit nodes
MaxSplit == 2
\* longest column list handed to make_converting_actions
MaxCols == 2
\* most add_aliases calls a DAG has gone through when a column is restored
MaxRenames == 3
\* most nodes built one on top of the other over an input or a literal
MaxOnTop == 3

Names == {"a", "b"}
Types == {"Int", "Array(Int)"}

(***************************************************************************)
(* Sequence helpers.                                                       *)
(***************************************************************************)
Range(s) == {s[i] : i \in 1..Len(s)}

RemoveAt(s, i) == SubSeq(s, 1, i - 1) \o SubSeq(s, i + 1, Len(s))

\* position of the first element of s that satisfies P, 0 when there is none
FirstPos(s, P(_)) ==
    IF \E i \in 1..Len(s) : P(s[i])
    THEN CHOOSE i \in 1..Len(s) : P(s[i]) /\ \A j \in 1..(i - 1) : ~P(s[j])
    ELSE 0

SeqsUpTo(S, n) == UNION {[1..k -> S] : k \in 0..n}

(***************************************************************************)
(* Columns, nodes, DAGs.                                                   *)
(***************************************************************************)
NoColumn == [present |-> FALSE, const |-> FALSE, size |-> 0, val |-> 0]

ConstColumn(sz, v) == [present |-> TRUE, const |-> TRUE, size |-> sz, val |-> v]

FullColumn(sz) == [present |-> TRUE, const |-> FALSE, size |-> sz, val |-> 0]

\* node.column && isColumnConst(*node.column)
isColumnConst(c) == c.present /\ c.const

Node(id, type, name, rtype, col, children, acf, fn) ==
    [id |-> id, type |-> type, result_name |-> name, result_type |-> rtype,
     column |-> col, children |-> children, allow_constant_folding |-> acf,
     function_base |-> fn]

EmptyDAG == [nodes |-> <<>>, inputs |-> <<>>, index |-> <<>>,
             project_input |-> FALSE, projected_output |-> FALSE,
             compile_expressions |-> FALSE]

NodeIds(d) == {d.nodes[i].id : i \in 1..Len(d.nodes)}

\* position in the store of the node whose address is id (0: no such node)
PosOf(nodes, id) == FirstPos(nodes, LAMBDA n : n.id = id)

NodeAt(nodes, id) == nodes[PosOf(nodes, id)]

\* every address held by the DAG, live or not
AllIds(d) == NodeIds(d) \cup Range(d.inputs) \cup Range(d.index)
             \cup UNION {Range(d.nodes[i].children) : i \in 1..Len(d.nodes)}

\* an address that no pointer in S holds
FreeId(S) == CHOOSE i \in 1..(Cardinality(S) + 1) :
                /\ i \notin S
                /\ \A j \in 1..(i - 1) : j \in S

\* the address the next emplace_back yields: one that no pointer of the DAG holds
NewId(d) == FreeId(AllIds(d))

\* every pointer of the DAG can be dereferenced
NoDangling(d) == AllIds(d) \subseteq NodeIds(d)

\* d with every node named by its position in the store, and every pointer
\* to a node that is no longer in the store named by one address past the end
Canon(d) ==
    LET n == Len(d.nodes)
        to(id) == IF PosOf(d.nodes, id) # 0 THEN PosOf(d.nodes, id) ELSE n + 1
        map(s) == [i \in 1..Len(s) |-> to(s[i])]
    IN [d EXCEPT !.nodes = [i \in 1..n |->
                              [d.nodes[i] EXCEPT !.id = i,
                                                 !.children = map(d.nodes[i].children)]],
                 !.inputs = map(d.inputs),
                 !.index = map(d.index)]

(***************************************************************************)
(* ActionsDAG::Index: a list of node pointers in insertion order with      *)
(* lookup by result_name.  The class is declared in ActionsDAG.h; it is    *)
(* modelled from its documented behaviour: find gives the first entry of a *)
(* name, insert appends (also a node that is in the list already), replace *)
(* removes the entries of the node's name and appends, remove takes out    *)
(* the one entry it is given.                                              *)
(***************************************************************************)
IndexFind(nodes, index, name) ==
    FirstPos(index, LAMBDA id : NodeAt(nodes, id).result_name = name)

IndexContains(nodes, index, name) == IndexFind(nodes, index, name) # 0

IndexInsert(index, id) == Append(index, id)

IndexPrepend(index, id) == <<id>> \o index

IndexRemove(index, pos) == RemoveAt(index, pos)

IndexReplace(nodes, index, id) ==
    LET name == NodeAt(nodes, id).result_name
    IN Append(SelectSeq(index, LAMBDA e : NodeAt(nodes, e).result_name # name), id)

\* cloneEmpty: a DAG without nodes that has the settings of d
cloneEmpty(d) == [d EXCEPT !.nodes = <<>>, !.inputs = <<>>, !.index = <<>>]

\* a clone whose nodes keep the children of the nodes they are copies of
cloneShallow(d) ==
    LET base == CHOOSE m \in AllIds(d) \cup {0} : \A x \in AllIds(d) : x <= m
        copy_map(id) == IF id \in NodeIds(d) THEN base + PosOf(d.nodes, id) ELSE 0
    IN [d EXCEPT !.nodes = [i \in 1..Len(d.nodes) |->
                              [d.nodes[i] EXCEPT !.id = copy_map(@)]],
                 !.index = [i \in 1..Len(d.index) |-> copy_map(d.index[i])],
                 !.inputs = [i \in 1..Len(d.inputs) |-> copy_map(d.inputs[i])]]

\* clone: every node is copied to a new address, and children, index and
\* inputs are led through copy_map; copy_map[p] of a pointer p that is not a
\* node of the store is a null pointer (0)
clone(d) ==
    LET base == CHOOSE m \in AllIds(d) \cup {0} : \A x \in AllIds(d) : x <= m
        copy_map(id) == IF id \in NodeIds(d) THEN base + PosOf(d.nodes, id) ELSE 0
    IN [d EXCEPT !.nodes = [i \in 1..Len(d.nodes) |->
                              [d.nodes[i] EXCEPT
                                 !.id = copy_map(@),
                                 !.children = [k \in 1..Len(@) |-> copy_map(@[k])]]],
                 !.index = [i \in 1..Len(d.index) |-> copy_map(d.index[i])],
                 !.inputs = [i \in 1..Len(d.inputs) |-> copy_map(d.inputs[i])]]

\* projectInput
projectInput(d) == [d EXCEPT !.project_input = TRUE]

(***************************************************************************)
(* Results of operations: the DAG after the call, the error thrown ("" for *)
(* a normal return) and the address of the node returned.                  *)
(***************************************************************************)
Ok(d, id) == [dag |-> d, err |-> "", id |-> id]

Fail(d, e) == [dag |-> d, err |-> e, id |-> 0]

(***************************************************************************)
(* Builders.                                                               *)
(***************************************************************************)
\* mutant of addNode: the new node is put at the front of the store
addNodeFront(d, node, can_replace) ==
    IF IndexContains(d.nodes, d.index, node.result_name) /\ ~can_replace
    THEN Fail(d, "DUPLICATE_COLUMN")
    ELSE LET nodes == <<node>> \o d.nodes
         IN Ok([d EXCEPT !.nodes = nodes,
                         !.inputs = IF node.type = "INPUT"
                                    THEN Append(d.inputs, node.id) ELSE d.inputs,
                         !.index = IndexReplace(nodes, d.index, node.id)],
               node.id)

\* an addNode that puts the node into the store before it looks at the index
addNodeThenCheck(d, node, can_replace) ==
    IF IndexContains(d.nodes, d.index, node.result_name) /\ ~can_replace
    THEN Fail([d EXCEPT !.nodes = Append(@, node)], "DUPLICATE_COLUMN")
    ELSE LET nodes == Append(d.nodes, node)
         IN Ok([d EXCEPT !.nodes = nodes,
                         !.inputs = IF node.type = "INPUT"
                                    THEN Append(d.inputs, node.id) ELSE d.inputs,
                         !.index = IndexReplace(nodes, d.index, node.id)],
               node.id)

\* addNode(node, can_replace)
addNode(d, node, can_replace) ==
    IF IndexContains(d.nodes, d.index, node.result_name) /\ ~can_replace
    THEN Fail(d, "DUPLICATE_COLUMN")
    ELSE LET nodes == Append(d.nodes, node)
         IN Ok([d EXCEPT !.nodes = nodes,
                         !.inputs = IF node.type = "INPUT"
                                    THEN Append(d.inputs, node.id) ELSE d.inputs,
                         !.index = IndexReplace(nodes, d.index, node.id)],
               node.id)

getNode(d, name) ==
    LET pos == IndexFind(d.nodes, d.index, name)
    IN IF pos = 0 THEN Fail(d, "UNKNOWN_IDENTIFIER") ELSE Ok(d, d.index[pos])

\* both overloads: col = NoColumn is addInput(name, type, can_replace)
addInput(d, name, type, col, can_replace) ==
    addNode(d, Node(NewId(d), "INPUT", name, type, col, <<>>, TRUE, ""), can_replace)

addColumn(d, name, type, col, can_replace) ==
    IF ~col.present
    THEN Fail(d, "LOGICAL_ERROR")
    ELSE addNode(d, Node(NewId(d), "COLUMN", name, type, col, <<>>, TRUE, ""), can_replace)

\* an alias that does not take allow_constant_folding over from its child
addAliasNodeFoldable(d, child_id, alias, can_replace) ==
    LET child == NodeAt(d.nodes, child_id)
    IN addNode(d, Node(NewId(d), "ALIAS", alias, child.result_type, child.column,
                       <<child_id>>, TRUE, ""),
               can_replace)

addAliasNode(d, child_id, alias, can_replace) ==
    LET child == NodeAt(d.nodes, child_id)
    IN addNode(d, Node(NewId(d), "ALIAS", alias, child.result_type, child.column,
                       <<child_id>>, child.allow_constant_folding, ""),
               can_replace)

addAlias(d, name, alias, can_replace) ==
    LET r == getNode(d, name)
    IN IF r.err # "" THEN r ELSE addAliasNode(d, r.id, alias, can_replace)

NestedType(t) == IF t = "Array(Int)" THEN "Int" ELSE ""

addArrayJoin(d, source_name, result_name) ==
    LET r == getNode(d, source_name)
    IN IF r.err # "" THEN r
       ELSE LET child == NodeAt(d.nodes, r.id)
            IN IF NestedType(child.result_type) = ""
               THEN Fail(d, "TYPE_MISMATCH")
               ELSE addNode(d, Node(NewId(d), "ARRAY_JOIN", result_name,
                                    NestedType(child.result_type), NoColumn,
                                    <<r.id>>, TRUE, ""),
                            FALSE)

(***************************************************************************)
(* The functions of the execution runtime that the DAG is built from.      *)
(* The runtime is outside the repository; the builder sees of a function   *)
(* only the answers below.                                                 *)
(*   plus         folds over constant arguments                            *)
(*   now          not deterministic, constant result                       *)
(*   rand         not deterministic, its result is never a constant        *)
(*   ignore       always returns a constant, whatever the arguments        *)
(*   materialize  not suitable for constant folding                        *)
(*   CAST         result type named by its second argument                 *)
(***************************************************************************)
isSuitableForConstantFolding(f) == f \in {"plus", "now", "rand", "ignore", "CAST"}

isDeterministic(f) == f \notin {"now", "rand"}

\* function->build(arguments) throws when the function cannot take them
canBuild(f, arguments) ==
    CASE f = "CAST" -> Len(arguments) = 2
      [] f = "materialize" -> Len(arguments) = 1
      [] OTHER -> TRUE

\* function_base->getResultType()
getResultType(f, arguments) ==
    CASE f = "CAST" -> arguments[2].name
      [] f = "materialize" -> arguments[1].type
      [] OTHER -> "Int"

\* node.function->execute(arguments, result_type, num_rows, true)
execute(f, arguments, num_rows) ==
    IF f \in {"plus", "now", "ignore", "CAST"}
    THEN ConstColumn(num_rows, 7)
    ELSE FullColumn(num_rows)

\* function_base->getResultIfAlwaysReturnsConstantAndHasArguments(arguments)
getResultIfAlwaysReturnsConstantAndHasArguments(f, arguments) ==
    IF f = "ignore" /\ Len(arguments) > 0 THEN ConstColumn(1, 0) ELSE NoColumn

\* col->empty() ? col->cloneResized(1) : col
cloneResizedIfEmpty(col) == IF col.size = 0 THEN [col EXCEPT !.size = 1] ELSE col

\* function->getName() + "(" + names of the children joined by ", " + ")"
RECURSIVE JoinNames(_)
JoinNames(arguments) ==
    IF Len(arguments) = 0 THEN ""
    ELSE IF Len(arguments) = 1 THEN arguments[1].name
    ELSE arguments[1].name \o ", " \o JoinNames(Tail(arguments))

\* mutant of FunctionColumn: folds whether or not the function is deterministic
FunctionColumnAlways(f, arguments, all_const, acf, compile_expressions) ==
    LET num_rows == IF Len(arguments) = 0 THEN 0 ELSE arguments[1].column.size
        col == execute(f, arguments, num_rows)
        folded == IF all_const /\ isSuitableForConstantFolding(f) /\ isColumnConst(col)
                  THEN cloneResizedIfEmpty(col)
                  ELSE NoColumn
        soft == IF ~folded.present /\ isSuitableForConstantFolding(f)
                THEN getResultIfAlwaysReturnsConstantAndHasArguments(f, arguments)
                ELSE NoColumn
    IN IF soft.present
       THEN [column |-> soft, allow_constant_folding |-> FALSE]
       ELSE [column |-> folded, allow_constant_folding |-> acf]

\* the column the new FUNCTION node gets and its allow_constant_folding
FunctionColumn(f, arguments, all_const, acf, compile_expressions) ==
    LET num_rows == IF Len(arguments) = 0 THEN 0 ELSE arguments[1].column.size
        col == execute(f, arguments, num_rows)
        folded == IF all_const /\ isSuitableForConstantFolding(f)
                     /\ (~compile_expressions \/ isDeterministic(f))
                     /\ isColumnConst(col)
                  THEN cloneResizedIfEmpty(col)
                  ELSE NoColumn
        soft == IF ~folded.present /\ isSuitableForConstantFolding(f)
                THEN getResultIfAlwaysReturnsConstantAndHasArguments(f, arguments)
                ELSE NoColumn
    IN IF soft.present
       THEN [column |-> soft, allow_constant_folding |-> FALSE]
       ELSE [column |-> folded, allow_constant_folding |-> acf]

\* addFunction(function, children, result_name, can_replace)
addFunctionNodes(d, f, children, result_name, can_replace) ==
    LET arguments == [i \in 1..Len(children) |->
                        LET child == NodeAt(d.nodes, children[i])
                        IN [column |-> child.column, type |-> child.result_type,
                            name |-> child.result_name]]
        acf == \A i \in 1..Len(children) :
                  NodeAt(d.nodes, children[i]).allow_constant_folding
        all_const == \A i \in 1..Len(children) : isColumnConst(arguments[i].column)
        fc == FunctionColumn(f, arguments, all_const, acf, d.compile_expressions)
        name == IF result_name = ""
                THEN f \o "(" \o JoinNames(arguments) \o ")"
                ELSE result_name
    IN IF ~canBuild(f, arguments)
       THEN Fail(d, "NUMBER_OF_ARGUMENTS_DOESNT_MATCH")
       ELSE addNode(d, Node(NewId(d), "FUNCTION", name, getResultType(f, arguments),
                            fc.column, children, fc.allow_constant_folding, f),
                    can_replace)

\* the nodes that the names resolve to, 0 for a name that is not in the index
ResolveNames(d, names) ==
    [i \in 1..Len(names) |->
        LET pos == IndexFind(d.nodes, d.index, names[i])
        IN IF pos = 0 THEN 0 ELSE d.index[pos]]

\* addFunction(function, argument_names, result_name, context)
addFunction(d, f, argument_names, result_name, compile_expressions) ==
    LET d1 == [d EXCEPT !.compile_expressions = compile_expressions]
        children == ResolveNames(d1, argument_names)
    IN IF 0 \in Range(children)
       THEN Fail(d1, "UNKNOWN_IDENTIFIER")
       ELSE addFunctionNodes(d1, f, children, result_name, FALSE)

(***************************************************************************)
(* Pruner.                                                                 *)
(***************************************************************************)
\* mutant of Foldable: allow_constant_folding is not looked at
FoldableConstant(n) == Len(n.children) > 0 /\ isColumnConst(n.column)

\* the in-place fold of removeUnusedActions applies to this node
Foldable(n) ==
    Len(n.children) > 0 /\ isColumnConst(n.column) /\ n.allow_constant_folding

\* push the children that are not visited yet, in order
RECURSIVE PushChildren(_, _, _)
PushChildren(children, visited, stack) ==
    IF children = <<>> THEN [visited |-> visited, stack |-> stack]
    ELSE IF Head(children) \in visited
         THEN PushChildren(Tail(children), visited, stack)
         ELSE PushChildren(Tail(children), visited \cup {Head(children)},
                           Append(stack, Head(children)))

\* the while (!stack.empty()) loop; the top of the stack is its last element
RECURSIVE PruneLoop(_, _, _)
PruneLoop(nodes, visited, stack) ==
    IF stack = <<>> THEN [nodes |-> nodes, visited |-> visited]
    ELSE LET id == stack[Len(stack)]
             rest == SubSeq(stack, 1, Len(stack) - 1)
             pos == PosOf(nodes, id)
             nodes1 == IF Foldable(nodes[pos])
                       THEN [nodes EXCEPT ![pos].type = "COLUMN",
                                          ![pos].children = <<>>]
                       ELSE nodes
             p == PushChildren(nodes1[pos].children, visited, rest)
         IN PruneLoop(nodes1, p.visited, p.stack)

\* mutant of ArrayJoins: the traversal starts from the index alone
NoArrayJoins(d) == <<>>

\* "We cannot remove arrayJoin": the ARRAY_JOIN nodes that are not in the
\* index, in store order
ArrayJoins(d) ==
    SelectSeq([i \in 1..Len(d.nodes) |-> d.nodes[i].id],
              LAMBDA id : NodeAt(d.nodes, id).type = "ARRAY_JOIN" /\ id \notin Range(d.index))

\* mutant of removeUnusedActions: a node is folded after its children were
\* pushed, so that the children of a folded node stay in the store
removeUnusedActionsFoldLast(d) ==
    LET unfolded == [i \in 1..Len(d.nodes) |->
                       [d.nodes[i] EXCEPT !.allow_constant_folding = FALSE]]
        kept == PruneLoop(unfolded, Range(d.index) \cup Range(ArrayJoins(d)),
                          d.index \o ArrayJoins(d)).visited
        r == PruneLoop(d.nodes, Range(d.index) \cup Range(ArrayJoins(d)),
                       d.index \o ArrayJoins(d))
    IN [d EXCEPT !.nodes = SelectSeq(r.nodes, LAMBDA n : n.id \in kept),
                 !.inputs = SelectSeq(d.inputs, LAMBDA id : id \in kept)]

\* removeUnusedActions()
removeUnusedActions(d) ==
    LET r == PruneLoop(d.nodes, Range(d.index) \cup Range(ArrayJoins(d)),
                       d.index \o ArrayJoins(d))
    IN [d EXCEPT !.nodes = SelectSeq(r.nodes, LAMBDA n : n.id \in r.visited),
                 !.inputs = SelectSeq(d.inputs, LAMBDA id : id \in r.visited)]

\* removeUnusedActions(const std::vector<Node *> & required_nodes)
removeUnusedActionsNodes(d, required_nodes) ==
    removeUnusedActions([d EXCEPT !.index = required_nodes])

\* s without the elements that occurred earlier in it
RECURSIVE Dedup(_)
Dedup(s) ==
    IF s = <<>> THEN <<>>
    ELSE LET front == Dedup(SubSeq(s, 1, Len(s) - 1))
             last == s[Len(s)]
         IN IF last \in Range(front) THEN front ELSE Append(front, last)

\* a prune by names that has pruned down to the names it found when it throws
removeUnusedActionsKnownNames(d, required_names) ==
    LET ids == ResolveNames(d, required_names)
    IN IF 0 \in Range(ids)
       THEN Fail(removeUnusedActionsNodes(d, Dedup(SelectSeq(ids, LAMBDA id : id # 0))),
                 "UNKNOWN_IDENTIFIER")
       ELSE Ok(removeUnusedActionsNodes(d, Dedup(ids)), 0)

\* removeUnusedActions(const Names & required_names)
removeUnusedActionsNames(d, required_names) ==
    LET ids == ResolveNames(d, required_names)
    IN IF 0 \in Range(ids)
       THEN Fail(d, "UNKNOWN_IDENTIFIER")
       ELSE Ok(removeUnusedActionsNodes(d, Dedup(ids)), 0)

(***************************************************************************)
(* Projection.                                                             *)
(***************************************************************************)
\* the second loop of addAliases, from pair i on
RECURSIVE AliasLoop(_, _, _, _, _)
AliasLoop(d, aliases, required_nodes, i, result_nodes) ==
    IF i > Len(aliases) THEN [dag |-> d, err |-> "", ids |-> result_nodes]
    ELSE LET item == aliases[i]
             child == required_nodes[i]
         IN IF item[2] # "" /\ item[1] # item[2]
            THEN LET r == addAliasNode(d, child, item[2], TRUE)
                 IN AliasLoop(r.dag, aliases, required_nodes, i + 1,
                              Append(result_nodes, r.id))
            ELSE AliasLoop(d, aliases, required_nodes, i + 1,
                           Append(result_nodes, child))

\* an addAliases that looks a name up when its pair's turn comes, in the
\* index as the earlier pairs have left it
RECURSIVE addAliasesInTurn(_, _)
addAliasesInTurn(d, aliases) ==
    IF aliases = <<>> THEN [dag |-> d, err |-> "", ids |-> <<>>]
    ELSE LET front == addAliasesInTurn(d, SubSeq(aliases, 1, Len(aliases) - 1))
             item == aliases[Len(aliases)]
             child == getNode(front.dag, item[1])
         IN IF front.err # "" \/ child.err # ""
            THEN [dag |-> d, err |-> "UNKNOWN_IDENTIFIER", ids |-> <<>>]
            ELSE IF item[2] # "" /\ item[1] # item[2]
                 THEN LET r == addAliasNode(front.dag, child.id, item[2], TRUE)
                      IN [dag |-> r.dag, err |-> "", ids |-> Append(front.ids, r.id)]
                 ELSE [dag |-> front.dag, err |-> "", ids |-> Append(front.ids, child.id)]

\* addAliases(aliases, result_nodes)
addAliases(d, aliases) ==
    LET required_nodes == ResolveNames(d, [i \in 1..Len(aliases) |-> aliases[i][1]])
    IN IF 0 \in Range(required_nodes)
       THEN [dag |-> d, err |-> "UNKNOWN_IDENTIFIER", ids |-> <<>>]
       ELSE AliasLoop(d, aliases, required_nodes, 1, <<>>)

project(d, projection) ==
    LET r == addAliases(d, projection)
    IN IF r.err # "" THEN Fail(d, r.err)
       ELSE Ok([projectInput(removeUnusedActionsNodes(r.dag, r.ids))
                   EXCEPT !.projected_output = TRUE], 0)

\* a scan of the store from its front: the first node that bears the name
FirstNamed(nodes, column_name) ==
    IF \E i \in 1..Len(nodes) : nodes[i].result_name = column_name
    THEN nodes[CHOOSE i \in 1..Len(nodes) :
                  /\ nodes[i].result_name = column_name
                  /\ \A j \in 1..(i - 1) : nodes[j].result_name # column_name].id
    ELSE 0

\* the node tryRestoreColumn puts into the index: the last one in the store
\* that bears the name (0: none)
LastNamed(nodes, column_name) ==
    IF \E i \in 1..Len(nodes) : nodes[i].result_name = column_name
    THEN nodes[CHOOSE i \in 1..Len(nodes) :
                  /\ nodes[i].result_name = column_name
                  /\ \A j \in (i + 1)..Len(nodes) : nodes[j].result_name # column_name].id
    ELSE 0

\* tryRestoreColumn: the DAG after the call and the value returned
tryRestoreColumn(d, column_name) ==
    IF IndexContains(d.nodes, d.index, column_name)
    THEN [dag |-> d, ret |-> TRUE]
    ELSE IF LastNamed(d.nodes, column_name) # 0
         THEN [dag |-> [d EXCEPT !.index = IndexReplace(d.nodes, d.index,
                                                LastNamed(d.nodes, column_name))],
               ret |-> TRUE]
         ELSE [dag |-> d, ret |-> FALSE]

\* a remove_unused_input that takes the node out of the store and the index
\* and leaves the inputs list as it is
removeUnusedInputFromStore(d, column_name) ==
    LET it == FirstPos(d.inputs, LAMBDA id : NodeAt(d.nodes, id).result_name = column_name)
    IN IF it = 0 THEN Fail(d, "LOGICAL_ERROR")
       ELSE LET input == d.inputs[it]
                jt == FirstPos(d.index, LAMBDA id : id = input)
            IN IF \E i \in 1..Len(d.nodes) : input \in Range(d.nodes[i].children)
               THEN Fail(d, "LOGICAL_ERROR")
               ELSE Ok([d EXCEPT !.index = IF jt = 0 THEN d.index
                                           ELSE IndexRemove(d.index, jt),
                                 !.nodes = RemoveAt(d.nodes, PosOf(d.nodes, input))], 0)

removeUnusedInput(d, column_name) ==
    LET it == FirstPos(d.inputs, LAMBDA id : NodeAt(d.nodes, id).result_name = column_name)
    IN IF it = 0 THEN Fail(d, "LOGICAL_ERROR")
       ELSE LET input == d.inputs[it]
                jt == FirstPos(d.index, LAMBDA id : id = input)
            IN IF \E i \in 1..Len(d.nodes) : input \in Range(d.nodes[i].children)
               THEN Fail(d, "LOGICAL_ERROR")
               ELSE Ok([d EXCEPT !.index = IF jt = 0 THEN d.index
                                           ELSE IndexRemove(d.index, jt),
                                 !.nodes = RemoveAt(d.nodes, PosOf(d.nodes, input)),
                                 !.inputs = RemoveAt(d.inputs, it)], 0)

(***************************************************************************)
(* make_converting_actions.  A column of source or result is a record      *)
(* [name, type, column].                                                   *)
(***************************************************************************)
\* ActionsDAG(const ColumnsWithTypeAndName & inputs_), from input i on
RECURSIVE FromColumns(_, _, _)
FromColumns(d, inputs_, i) ==
    IF i > Len(inputs_) THEN d
    ELSE FromColumns(
            IF isColumnConst(inputs_[i].column)
            THEN addInput(d, inputs_[i].name, inputs_[i].type, inputs_[i].column, TRUE).dag
            ELSE addInput(d, inputs_[i].name, inputs_[i].type, NoColumn, TRUE).dag,
            inputs_, i + 1)

\* the map `inputs` of mode Name: for every name the positions in d.inputs of
\* the inputs that bear it, in order; empty in mode Position
InputPositions(d, mode) ==
    [name \in IF mode = "Name"
              THEN {NodeAt(d.nodes, d.inputs[j]).result_name : j \in 1..Len(d.inputs)}
              ELSE {} |->
        SelectSeq([j \in 1..Len(d.inputs) |-> j],
                  LAMBDA j : NodeAt(d.nodes, d.inputs[j]).result_name = name)]

\* mutant of CheckConstants: the test of ignore_constant_values is inverted
CheckConstantsInverted(d, src_node, res_elem, ignore_constant_values) ==
    IF ~isColumnConst(res_elem.column) THEN Ok(d, src_node)
    ELSE IF ~isColumnConst(NodeAt(d.nodes, src_node).column) THEN Fail(d, "ILLEGAL_COLUMN")
    ELSE IF ~ignore_constant_values
         THEN addColumn(d, res_elem.name, res_elem.type, res_elem.column, TRUE)
    ELSE IF res_elem.column.val # NodeAt(d.nodes, src_node).column.val
         THEN Fail(d, "ILLEGAL_COLUMN")
    ELSE Ok(d, src_node)

\* "Check constants": the DAG and the source node after the check
CheckConstants(d, src_node, res_elem, ignore_constant_values) ==
    IF ~isColumnConst(res_elem.column) THEN Ok(d, src_node)
    ELSE IF ~isColumnConst(NodeAt(d.nodes, src_node).column) THEN Fail(d, "ILLEGAL_COLUMN")
    ELSE IF ignore_constant_values
         THEN addColumn(d, res_elem.name, res_elem.type, res_elem.column, TRUE)
    ELSE IF res_elem.column.val # NodeAt(d.nodes, src_node).column.val
         THEN Fail(d, "ILLEGAL_COLUMN")
    ELSE Ok(d, src_node)

\* a conversion that never casts
AddNoCast(d, src_node, res_elem) == Ok(d, src_node)

\* "Add CAST function to convert into result type if needed"
AddCast(d, src_node, res_elem) ==
    IF res_elem.type = NodeAt(d.nodes, src_node).result_type THEN Ok(d, src_node)
    ELSE LET right_arg == addColumn(d, res_elem.type, "String", ConstColumn(0, 0), TRUE)
         IN addFunctionNodes(right_arg.dag, "CAST", <<src_node, right_arg.id>>, "", TRUE)

\* the materialize wrapper for a constant that must become a full column
AddMaterialize(d, src_node, res_elem) ==
    IF isColumnConst(NodeAt(d.nodes, src_node).column) /\ ~isColumnConst(res_elem.column)
    THEN addFunctionNodes(d, "materialize", <<src_node>>, "", TRUE)
    ELSE Ok(d, src_node)

\* the final rename
AddRename(d, src_node, res_elem) ==
    IF NodeAt(d.nodes, src_node).result_name # res_elem.name
    THEN addAliasNode(d, src_node, res_elem.name, TRUE)
    ELSE Ok(d, src_node)

\* a queue whose front is never popped
KeepFront(inputs, name) == inputs

\* input.pop_front() on the queue of the name
PopFront(inputs, name) == [inputs EXCEPT ![name] = Tail(@)]

\* the loop over the result columns, from result_col_num on
RECURSIVE ConvertLoop(_, _, _, _, _, _, _)
ConvertLoop(d, result, mode, ignore_constant_values, result_col_num, projection, inputs) ==
    IF result_col_num > Len(result)
    THEN Ok(projectInput(removeUnusedActionsNodes(d, projection)), 0)
    ELSE LET res_elem == result[result_col_num]
             input == IF res_elem.name \in DOMAIN inputs THEN inputs[res_elem.name] ELSE <<>>
             pos == IF mode = "Position" THEN result_col_num
                    ELSE IF input = <<>> THEN 0 ELSE Head(input)
             popped == IF mode = "Position" \/ input = <<>> THEN inputs
                       ELSE PopFront(inputs, res_elem.name)
         IN IF pos = 0 THEN Fail(d, "THERE_IS_NO_COLUMN")
            ELSE LET r1 == CheckConstants(d, d.inputs[pos], res_elem, ignore_constant_values)
                 IN IF r1.err # "" THEN r1
                    ELSE LET r2 == AddCast(r1.dag, r1.id, res_elem)
                             r3 == AddMaterialize(r2.dag, r2.id, res_elem)
                             r4 == AddRename(r3.dag, r3.id, res_elem)
                         IN ConvertLoop(r4.dag, result, mode, ignore_constant_values,
                                        result_col_num + 1, Append(projection, r4.id),
                                        popped)

makeConvertingActions(source, result, mode, ignore_constant_values) ==
    IF mode = "Position" /\ Len(source) # Len(result)
    THEN Fail(EmptyDAG, "NUMBER_OF_COLUMNS_DOESNT_MATCH")
    ELSE LET actions_dag == FromColumns(EmptyDAG, source, 1)
         IN ConvertLoop(actions_dag, result, mode, ignore_constant_values, 1, <<>>,
                        InputPositions(actions_dag, mode))

(***************************************************************************)
(* Split.                                                                  *)
(***************************************************************************)
\* pass 1: the nodes of split_nodes and everything below them
RECURSIVE NeededBySplit(_, _)
NeededBySplit(d, needed) ==
    LET below == UNION {Range(NodeAt(d.nodes, id).children) : id \in needed}
    IN IF below \subseteq needed THEN needed ELSE NeededBySplit(d, needed \cup below)

\* a fresh INPUT node that bears the name and the type of n
InputLike(id, n) == Node(id, "INPUT", n.result_name, n.result_type, NoColumn, <<>>, TRUE, "")

\* the loop over copy.children of a node copied into the second part: k is
\* the child to look at, pos the position of the copy in second_nodes
RECURSIVE ReplaceChildren(_, _, _, _)
ReplaceChildren(d, st, pos, k) ==
    IF k > Len(st.second_nodes[pos].children) THEN st
    ELSE LET child == st.second_nodes[pos].children[k]
             orig == NodeAt(d.nodes, child)
             id == Len(st.second_nodes) + 1
             st1 == IF st.to_second[child] # 0 THEN st
                    ELSE IF orig.type = "COLUMN"
                    THEN [st EXCEPT !.second_nodes = Append(@, [orig EXCEPT !.id = id]),
                                    !.to_second[child] = id]
                    ELSE [st EXCEPT !.second_nodes = Append(@, InputLike(id, orig)),
                                    !.to_second[child] = id,
                                    !.new_inputs = Append(@, child)]
         IN ReplaceChildren(d,
                [st1 EXCEPT !.second_nodes[pos].children[k] = st1.to_second[child]],
                pos, k + 1)

\* "Make a copy part" for cur, reached while the outer loop is at node
CopyNode(d, st, cur, node, needed) ==
    LET n == NodeAt(d.nodes, cur)
        st0 == [st EXCEPT !.visited = @ \cup {cur}]
    IN IF cur \notin needed
       THEN LET pos == Len(st0.second_nodes) + 1
                st1 == ReplaceChildren(d,
                          [st0 EXCEPT !.second_nodes = Append(@, [n EXCEPT !.id = pos]),
                                      !.to_second[cur] = pos],
                          pos, 1)
                fid == Len(st1.first_nodes) + 1
            IN IF n.type = "INPUT"
               THEN [st1 EXCEPT !.first_nodes = Append(@, [n EXCEPT !.id = fid]),
                                !.to_first[cur] = fid,
                                !.new_inputs = Append(@, cur)]
               ELSE st1
       ELSE LET fid == Len(st0.first_nodes) + 1
                copy == [n EXCEPT !.id = fid,
                                  !.children = [k \in 1..Len(n.children) |->
                                                   st0.to_first[n.children[k]]]]
                st1 == [st0 EXCEPT !.first_nodes = Append(@, copy),
                                   !.to_first[cur] = fid]
                sid == Len(st1.second_nodes) + 1
            IN IF cur \in Range(d.index)
               THEN [st1 EXCEPT !.second_nodes =
                                    Append(@, InputLike(sid, NodeAt(d.nodes, node))),
                                !.to_second[cur] = sid,
                                !.new_inputs = Append(@, cur)]
               ELSE st1

\* pass 2, the frame of cur: visit the children that are not visited yet,
\* from child k on, then copy cur
RECURSIVE VisitNode(_, _, _, _, _, _)
VisitNode(d, st, cur, k, node, needed) ==
    LET children == NodeAt(d.nodes, cur).children
    IN IF k > Len(children) THEN CopyNode(d, st, cur, node, needed)
       ELSE IF children[k] \in st.visited
            THEN VisitNode(d, st, cur, k + 1, node, needed)
            ELSE VisitNode(d, VisitNode(d, st, children[k], 1, node, needed),
                           cur, k + 1, node, needed)

\* pass 2, the loop over the store from position i on
RECURSIVE MoveNodes(_, _, _, _)
MoveNodes(d, st, i, needed) ==
    IF i > Len(d.nodes) THEN st
    ELSE LET node == d.nodes[i].id
         IN MoveNodes(d,
                      IF node \in st.visited THEN st
                      ELSE VisitNode(d, st, node, 1, node, needed),
                      i + 1, needed)

\* split(split_nodes): the pair (first_actions, second_actions)
SplitParts(d, st) ==
    [first |-> [cloneEmpty(d) EXCEPT
                  !.nodes = st.first_nodes,
                  !.index = [i \in 1..Len(st.new_inputs) |-> st.to_first[st.new_inputs[i]]],
                  !.inputs = [i \in 1..Len(d.inputs) |-> st.to_first[d.inputs[i]]]],
     second |-> [cloneEmpty(d) EXCEPT
                  !.nodes = st.second_nodes,
                  !.index = [i \in 1..Len(d.index) |-> st.to_second[d.index[i]]],
                  !.inputs = [i \in 1..Len(st.new_inputs) |-> st.to_second[st.new_inputs[i]]]]]

\* split(split_nodes): pass 1 marks what split_nodes need, pass 2 moves the
\* nodes, then the parts are put together
split(d, split_nodes) ==
    SplitParts(d, MoveNodes(d, [visited |-> {},
                                to_first |-> [id \in NodeIds(d) |-> 0],
                                to_second |-> [id \in NodeIds(d) |-> 0],
                                first_nodes |-> <<>>,
                                second_nodes |-> <<>>,
                                new_inputs |-> <<>>],
                            1, NeededBySplit(d, split_nodes \cap NodeIds(d))))

\* splitActionsBeforeArrayJoin, "Decide if node depends on ARRAY JOIN": what
\* the DFS finds for node id once all its children are decided
RECURSIVE DependOnArrayJoin(_, _, _)
DependOnArrayJoin(d, id, array_joined_columns) ==
    LET n == NodeAt(d.nodes, id)
    IN \/ n.type = "INPUT" /\ n.result_name \in array_joined_columns
       \/ \E k \in 1..Len(n.children) :
             DependOnArrayJoin(d, n.children[k], array_joined_columns)

\* a split before ARRAY JOIN that leaves project_input of the first part as
\* cloneEmpty copied it
splitActionsKeepingSettings(d, array_joined_columns) ==
    split(d, {id \in NodeIds(d) : ~DependOnArrayJoin(d, id, array_joined_columns)})

\* splitActionsBeforeArrayJoin(array_joined_columns)
splitActionsBeforeArrayJoin(d, array_joined_columns) ==
    [split(d, {id \in NodeIds(d) : ~DependOnArrayJoin(d, id, array_joined_columns)})
        EXCEPT !.first.project_input = FALSE]

\* splitActionsForFilter, the pair that is returned
Returned(res) == [first |-> res.first, second |-> res.second, err |-> ""]

\* splitActionsForFilter once the index was searched: it is the position
\* found, 0 for none
SplitAt(d, it) ==
    IF it = 0
    THEN [first |-> EmptyDAG, second |-> EmptyDAG, err |-> "LOGICAL_ERROR"]
    ELSE Returned(split(d, {d.index[it]}))

\* splitActionsForFilter(column_name); it is the first index entry of the
\* name
splitActionsForFilter(d, column_name) ==
    SplitAt(d, FirstPos(d.index, LAMBDA id : NodeAt(d.nodes, id).result_name = column_name))

(***************************************************************************)
(* Merge.                                                                  *)
(***************************************************************************)
\* d moved to addresses by n higher: the stores of the two arguments of merge
\* do not overlap
Moved(d, n) ==
    LET map(s) == [i \in 1..Len(s) |-> s[i] + n]
    IN [d EXCEPT !.nodes = [i \in 1..Len(d.nodes) |->
                              [d.nodes[i] EXCEPT !.id = @ + n, !.children = map(@)]],
                 !.inputs = map(d.inputs),
                 !.index = map(d.index)]

\* a queue that is never popped: the first entry of the name, taken or not
FrontOfAll(first, name, taken) ==
    FirstPos([k \in 1..Len(first.index) |-> k],
             LAMBDA k : NodeAt(first.nodes, first.index[k]).result_name = name)

\* first_result[name].front(): the position in first.index of the first entry
\* of the name that was not popped (0: the queue is empty or missing)
Front(first, name, taken) ==
    FirstPos([k \in 1..Len(first.index) |-> k],
             LAMBDA k : /\ k \notin taken
                        /\ NodeAt(first.nodes, first.index[k]).result_name = name)

\* an input that is put before the inputs of first
PushFront(inputs, node) == <<node>> \o inputs

\* first.inputs.push_back(node)
PushBack(inputs, node) == Append(inputs, node)

\* "Update inputs list": the loop over second.inputs from input i on.  taken
\* is the set of positions of first.index that were popped from first_result
RECURSIVE BindInputs(_, _, _, _)
BindInputs(first, second, i, st) ==
    IF i > Len(second.inputs) \/ st.err # "" THEN st
    ELSE LET node == second.inputs[i]
             name == NodeAt(second.nodes, node).result_name
             pos == Front(first, name, st.taken)
         IN IF pos = 0
            THEN IF first.project_input
                 THEN [st EXCEPT !.err = "LOGICAL_ERROR"]
                 ELSE BindInputs(first, second, i + 1,
                                 [st EXCEPT !.inputs = PushBack(@, node)])
            ELSE BindInputs(first, second, i + 1,
                    [st EXCEPT !.taken = @ \cup {pos},
                               !.inputs_map = [x \in DOMAIN @ \cup {node} |->
                                                  IF x = node THEN first.index[pos] ELSE @[x]],
                               !.removed_first_result =
                                   [x \in DOMAIN @ \cup {first.index[pos]} |->
                                      IF x = first.index[pos]
                                      THEN (IF x \in DOMAIN @ THEN @[x] ELSE 0) + 1
                                      ELSE @[x]]])

\* a loop that drops every occurrence of a consumed output
RemoveEveryOccurrence(index, removed) ==
    SelectSeq(index, LAMBDA id : ~(id \in DOMAIN removed /\ removed[id] > 0))

\* "Remove `second` inputs from index": the loop over first.index
RECURSIVE RemoveFromIndex(_, _)
RemoveFromIndex(index, removed) ==
    IF index = <<>> THEN <<>>
    ELSE IF Head(index) \in DOMAIN removed /\ removed[Head(index)] > 0
         THEN RemoveFromIndex(Tail(index), [removed EXCEPT ![Head(index)] = @ - 1])
         ELSE <<Head(index)>> \o RemoveFromIndex(Tail(index), removed)

\* merge up to the final removeUnusedActions
mergeNodes(first, second0) ==
    LET second == Moved(second0, Len(first.nodes) + 1)
        st == BindInputs(first, second, 1,
                         [taken |-> {}, inputs_map |-> <<>>, removed_first_result |-> <<>>,
                          inputs |-> first.inputs, err |-> ""])
        mapped(id) == IF NodeAt(second.nodes, id).type = "INPUT"
                         /\ id \in DOMAIN st.inputs_map
                      THEN st.inputs_map[id] ELSE id
        second_nodes == [i \in 1..Len(second.nodes) |->
                           [second.nodes[i] EXCEPT
                              !.children = [k \in 1..Len(@) |->
                                  IF @[k] \in NodeIds(second) THEN mapped(@[k]) ELSE @[k]]]]
        second_index == [i \in 1..Len(second.index) |-> mapped(second.index[i])]
    IN IF st.err # "" THEN Fail(first, st.err)
       ELSE Ok([first EXCEPT
                  !.inputs = st.inputs,
                  !.index = IF second.project_input THEN second_index
                            ELSE second_index
                                 \o RemoveFromIndex(first.index, st.removed_first_result),
                  !.project_input = first.project_input \/ second.project_input,
                  !.projected_output = second.projected_output,
                  !.nodes = first.nodes \o second_nodes], 0)

\* merge(first, second)
merge(first, second) ==
    LET r == mergeNodes(first, second)
    IN IF r.err # "" THEN r ELSE Ok(removeUnusedActions(r.dag), 0)

(***************************************************************************)
(* The state machine.  dag is the DAG the caller builds; pair holds the    *)
(* two halves of the last split until they are merged or one of them is    *)
(* taken over; op and err record the last call and the error it threw;     *)
(* conv holds a call of make_converting_actions and its result; context is *)
(* the value of the setting compile_expressions in the query's Context.    *)
(* An exception ends the query: no call follows a call that threw.         *)
(***************************************************************************)
NoPair == [present |-> FALSE, first |-> EmptyDAG, second |-> EmptyDAG]

NoConv == [pc |-> "idle", source |-> <<>>, result |-> <<>>, mode |-> "Position",
           ignore_constant_values |-> FALSE, err |-> "", dag |-> EmptyDAG]

\* a call on dag that returned r
Returns(name, r) ==
    /\ dag' = Canon(r.dag)
    /\ err' = r.err
    /\ op' = name
    /\ UNCHANGED <<pair, conv, context>>

\* the caller owns dag alone, no exception is propagating and every pointer
\* of dag can be dereferenced
CanCall == ~pair.present /\ conv.pc = "idle" /\ err = "" /\ NoDangling(dag)

CanAdd == CanCall /\ Len(dag.nodes) < MaxNodes

InputColumns == {NoColumn}

LiteralColumns == {ConstColumn(1, 1), ConstColumn(0, 1)}

\* the calls of add_function: a function and the names of its arguments
FunctionCalls ==
    {<<"plus", <<"a">>>>, <<"now", <<>>>>, <<"rand", <<>>>>, <<"ignore", <<"a">>>>}

NameLists == SeqsUpTo(Names, 2)

Projections == {<<p>> : p \in Names \X (Names \cup {""})}
               \cup {<<<<"a", x>>, <<y, z>>>> : x \in {"", "b"}, y \in Names, z \in {"", "a"}}

Init ==
    /\ dag = EmptyDAG
    /\ pair = NoPair
    /\ op = ""
    /\ err = ""
    /\ conv = NoConv
    /\ context \in BOOLEAN

AddInput ==
    /\ CanAdd
    /\ \E name \in Names, type \in Types, col \in InputColumns :
          Returns("add_input", addInput(dag, name, type, col, FALSE))

AddColumn ==
    /\ CanAdd
    /\ \E name \in Names, col \in LiteralColumns :
          Returns("add_column", addColumn(dag, name, "Int", col, FALSE))

AddAlias ==
    /\ CanAdd
    /\ \E name \in Names, alias \in Names :
          Returns("add_alias", addAlias(dag, name, alias, FALSE))

AddArrayJoin ==
    /\ CanAdd
    /\ \E source_name \in Names, result_name \in Names :
          Returns("add_array_join", addArrayJoin(dag, source_name, result_name))

AddFunction ==
    /\ CanAdd
    /\ \E call \in FunctionCalls, result_name \in Names :
          Returns("add_function", addFunction(dag, call[1], call[2], result_name, context))

AddAliases ==
    /\ CanAdd
    /\ \E aliases \in Projections :
          LET r == addAliases(dag, aliases)
          IN Returns("add_aliases", [dag |-> r.dag, err |-> r.err])

Project ==
    /\ CanAdd
    /\ \E projection \in Projections :
          Returns("project", project(dag, projection))

RemoveUnusedActions ==
    /\ CanCall
    /\ Returns("remove_unused_actions", Ok(removeUnusedActions(dag), 0))

RemoveUnusedActionsNames ==
    /\ CanCall
    /\ \E required_names \in NameLists :
          Returns("remove_unused_actions", removeUnusedActionsNames(dag, required_names))

RemoveUnusedActionsNodes ==
    /\ CanCall
    /\ \E required_nodes \in SeqsUpTo(NodeIds(dag), 2) :
          Returns("remove_unused_actions", Ok(removeUnusedActionsNodes(dag, required_nodes), 0))

TryRestoreColumn ==
    /\ CanCall
    /\ \E column_name \in Names :
          Returns("try_restore_column", Ok(tryRestoreColumn(dag, column_name).dag, 0))

RemoveUnusedInput ==
    /\ CanCall
    /\ \E column_name \in Names :
          Returns("remove_unused_input", removeUnusedInput(dag, column_name))

\* the caller holds the two parts of a split
Halves(res) == [present |-> TRUE, first |-> res.first, second |-> res.second]

Split ==
    /\ CanCall
    /\ Len(dag.nodes) <= MaxSplit
    /\ \E split_nodes \in SUBSET NodeIds(dag) :
          /\ pair' = Halves(split(dag, split_nodes))
          /\ op' = "split"
          /\ UNCHANGED <<dag, err, conv, context>>

\* the caller holds what merge returned, or its exception
MergeReturns(r, canonical) ==
    /\ dag' = IF canonical THEN Canon(r.dag) ELSE r.dag
    /\ err' = r.err

Merge ==
    /\ pair.present
    /\ MergeReturns(merge(pair.first, pair.second), TRUE)
    /\ op' = "merge"
    /\ pair' = NoPair
    /\ UNCHANGED <<conv, context>>

\* the caller goes on with one of the halves
TakeFirst ==
    /\ pair.present
    /\ dag' = pair.first
    /\ pair' = NoPair
    /\ op' = "first"
    /\ UNCHANGED <<err, conv, context>>

TakeSecond ==
    /\ pair.present
    /\ dag' = pair.second
    /\ pair' = NoPair
    /\ op' = "second"
    /\ UNCHANGED <<err, conv, context>>

\* the caller goes on with a clone of the DAG
Clone ==
    /\ CanCall
    /\ Returns("clone", Ok(clone(dag), 0))

\* the query compiles no expressions
InitBuilder == Init /\ ~context

\* builders and prunes on one DAG
NextBuilder ==
    \/ AddInput
    \/ AddColumn
    \/ AddAlias
    \/ AddArrayJoin
    \/ AddFunction
    \/ AddAliases
    \/ Project
    \/ RemoveUnusedActions
    \/ RemoveUnusedActionsNames
    \/ RemoveUnusedActionsNodes

\* Whether expressions are compiled is read by addFunction alone, to decide
\* whether a function that is not deterministic is folded; SpecBuilder has such
\* functions both folded (now) and not (rand) with compilation off.
SpecBuilder == InitBuilder /\ [][NextBuilder]_vars

\* functions over inputs, literals and aliases, with either setting
NextFunction ==
    \/ AddInput
    \/ AddColumn
    \/ AddAlias
    \/ AddFunction

SpecFunction == Init /\ [][NextFunction]_vars

\* the columns that source and result lists are made of
Columns ==
    {[name |-> "a", type |-> "Int", column |-> NoColumn],
     [name |-> "a", type |-> "Int", column |-> ConstColumn(1, 1)],
     [name |-> "a", type |-> "Int", column |-> ConstColumn(1, 2)],
     [name |-> "b", type |-> "Int", column |-> NoColumn],
     [name |-> "a", type |-> "Array(Int)", column |-> NoColumn]}

InitConvert ==
    /\ dag = EmptyDAG
    /\ pair = NoPair
    /\ op = ""
    /\ err = ""
    /\ context = FALSE
    /\ \E source \in SeqsUpTo(Columns, MaxCols), result \in SeqsUpTo(Columns, MaxCols),
          mode \in {"Position", "Name"}, ignore_constant_values \in BOOLEAN :
          conv = [NoConv EXCEPT !.pc = "call", !.source = source, !.result = result,
                                !.mode = mode,
                                !.ignore_constant_values = ignore_constant_values]

MakeConvertingActions ==
    /\ conv.pc = "call"
    /\ LET r == makeConvertingActions(conv.source, conv.result, conv.mode,
                                      conv.ignore_constant_values)
       IN conv' = [conv EXCEPT !.pc = "done", !.err = r.err, !.dag = Canon(r.dag)]
    /\ op' = "make_converting_actions"
    /\ UNCHANGED <<dag, pair, err, context>>

SpecConvert == InitConvert /\ [][MakeConvertingActions]_vars

\* the columns a stage of a pipeline starts from
StageColumns ==
    {[name |-> "a", type |-> "Int", column |-> NoColumn],
     [name |-> "b", type |-> "Int", column |-> NoColumn],
     [name |-> "a", type |-> "Int", column |-> ConstColumn(1, 1)]}

\* what a stage is before it is merged with another: a DAG constructed from
\* a list of columns, on which at most one builder was called
Stages ==
    LET made == {FromColumns(EmptyDAG, cols, 1) : cols \in SeqsUpTo(StageColumns, MaxCols)}
        called(d) == {Ok(d, 0), addAlias(d, "a", "b", FALSE),
                      addFunction(d, "plus", <<"a">>, "b", FALSE)}
                     \cup {project(d, projection) : projection \in Projections}
    IN {Canon(r.dag) : r \in {c \in UNION {called(d) : d \in made} : c.err = ""}}

InitMerge ==
    /\ dag = EmptyDAG
    /\ op = "stages"
    /\ err = ""
    /\ conv = NoConv
    /\ context = FALSE
    /\ \E first \in Stages, second \in Stages :
          pair = [present |-> TRUE, first |-> first, second |-> second]

\* merge(first, second) of two stages; pair keeps what the arguments were
MergeStages ==
    /\ pair.present
    /\ op = "stages"
    /\ MergeReturns(merge(pair.first, pair.second), FALSE)
    /\ op' = "merge"
    /\ pair' = [pair EXCEPT !.present = FALSE]
    /\ UNCHANGED <<conv, context>>

SpecMerge == InitMerge /\ [][MergeStages]_vars

SplitBeforeArrayJoin ==
    /\ CanCall
    /\ Len(dag.nodes) <= MaxSplit
    /\ \E array_joined_columns \in SUBSET Names :
          /\ pair' = Halves(splitActionsBeforeArrayJoin(dag, array_joined_columns))
          /\ op' = "split_before_array_join"
          /\ UNCHANGED <<dag, err, conv, context>>

\* the caller holds the two parts, or the exception
Filtered(r) ==
    /\ pair' = IF r.err = "" THEN Halves(r) ELSE pair
    /\ err' = r.err

SplitForFilter ==
    /\ CanCall
    /\ Len(dag.nodes) <= MaxSplit
    /\ \E column_name \in Names :
          /\ Filtered(splitActionsForFilter(dag, column_name))
          /\ op' = "split_for_filter"
          /\ UNCHANGED <<dag, conv, context>>

\* one DAG is built and then split; the halves are not used further
NextSplit ==
    \/ AddInput
    \/ AddColumn
    \/ AddAlias
    \/ AddArrayJoin
    \/ AddFunction
    \/ Project
    \/ SplitBeforeArrayJoin
    \/ SplitForFilter

SpecSplit == InitBuilder /\ [][NextSplit]_vars

\* a DAG is split, the caller goes on with one of the halves, puts columns
\* back into its index and splits it again
NextResplit ==
    \/ AddInput
    \/ AddAlias
    \/ AddArrayJoin
    \/ Project
    \/ TryRestoreColumn
    \/ Split
    \/ SplitBeforeArrayJoin
    \/ SplitForFilter
    \/ TakeFirst
    \/ TakeSecond

SpecResplit == InitBuilder /\ [][NextResplit]_vars

\* an input that add_aliases has renamed, one pair a call; the last call is
\* the last pair of renames
RECURSIVE RenamedBy(_, _)
RenamedBy(d, renames) ==
    IF renames = <<>> THEN [dag |-> d, err |-> "", ids |-> <<>>]
    ELSE LET front == RenamedBy(d, SubSeq(renames, 1, Len(renames) - 1))
         IN IF front.err # "" THEN front
            ELSE addAliases(front.dag, <<renames[Len(renames)]>>)

\* the DAGs try_restore_column is called on
RenamedInputs ==
    {Canon(r.dag) :
        r \in {x \in {RenamedBy(addInput(EmptyDAG, name, type, NoColumn, FALSE).dag, renames) :
                         name \in Names, type \in Types,
                         renames \in SeqsUpTo((Names \X Names) \ {<<"a", "a">>, <<"b", "b">>},
                                              MaxRenames)} :
                 x.err = ""}}

InitRestore ==
    /\ dag \in RenamedInputs
    /\ pair = NoPair
    /\ op = ""
    /\ err = ""
    /\ conv = NoConv
    /\ context = FALSE

\* columns are taken out of the index by a projection or a prune, and put
\* back by try_restore_column
NextRestore ==
    \/ Project
    \/ RemoveUnusedActionsNames
    \/ TryRestoreColumn

SpecRestore == InitRestore /\ [][NextRestore]_vars

\* a node built on top of the last node of the store: an alias of it under
\* the other name, or a function of it named by default
OnTop(d, step) ==
    LET last == d.nodes[Len(d.nodes)].result_name
    IN IF step = "alias"
       THEN LET r == addAliases(d, <<<<last, IF last = "a" THEN "b" ELSE "a">>>>)
            IN [dag |-> r.dag, err |-> r.err]
       ELSE LET r == addFunction(d, step, <<last>>, "", FALSE)
            IN [dag |-> r.dag, err |-> r.err]

RECURSIVE Tower(_, _)
Tower(d, steps) ==
    IF steps = <<>> THEN [dag |-> d, err |-> ""]
    ELSE LET below == Tower(d, SubSeq(steps, 1, Len(steps) - 1))
         IN IF below.err # "" THEN below ELSE OnTop(below.dag, steps[Len(steps)])

\* the DAGs that are pruned: towers over an input or over a literal
Towers ==
    {Canon(t.dag) :
        t \in {x \in {Tower(base, steps) :
                         base \in {addInput(EmptyDAG, "a", "Int", NoColumn, FALSE).dag,
                                   addColumn(EmptyDAG, "a", "Int", ConstColumn(1, 1), FALSE).dag},
                         steps \in SeqsUpTo({"alias", "plus", "ignore"}, MaxOnTop)} :
                 x.err = ""}}

InitSoft ==
    /\ dag \in Towers
    /\ pair = NoPair
    /\ op = ""
    /\ err = ""
    /\ conv = NoConv
    /\ context = FALSE

\* the prunes, and the builders that put an alias or a function on top
NextSoft ==
    \/ AddAlias
    \/ AddFunction
    \/ Project
    \/ RemoveUnusedActions
    \/ RemoveUnusedActionsNames
    \/ RemoveUnusedActionsNodes

SpecSoft == InitSoft /\ [][NextSoft]_vars

\* what makes, removes and moves inputs: add_input and nodes over inputs,
\* the prune, remove_unused_input, split and merge
NextInputs ==
    \/ AddInput
    \/ AddAlias
    \/ Project
    \/ RemoveUnusedActionsNodes
    \/ RemoveUnusedInput
    \/ Split
    \/ Merge
    \/ TakeFirst
    \/ TakeSecond

SpecInputs == InitBuilder /\ [][NextInputs]_vars

\* what makes, rewrites and copies child references: nodes over inputs and
\* literals, the prune with its fold, remove_unused_input, split, merge, clone
NextChildren ==
    \/ AddInput
    \/ AddColumn
    \/ AddAlias
    \/ Project
    \/ RemoveUnusedActionsNodes
    \/ RemoveUnusedInput
    \/ Split
    \/ Merge
    \/ TakeFirst
    \/ TakeSecond
    \/ Clone

SpecChildren == InitBuilder /\ [][NextChildren]_vars

\* columns are added, renamed, projected and pruned by name
NextProject ==
    \/ AddInput
    \/ AddColumn
    \/ AddAlias
    \/ AddAliases
    \/ Project
    \/ RemoveUnusedActionsNames

SpecProject == InitBuilder /\ [][NextProject]_vars

Next ==
    \/ NextBuilder
    \/ TryRestoreColumn
    \/ RemoveUnusedInput
    \/ Split
    \/ Merge
    \/ TakeFirst
    \/ TakeSecond

Spec == Init /\ [][Next]_vars

(***************************************************************************)
(* What the claims are stated with.                                        *)
(***************************************************************************)
\* getNamesAndTypesList: name and type of the index entries, in order
getNamesAndTypesList(d) ==
    [i \in 1..Len(d.index) |->
        <<NodeAt(d.nodes, d.index[i]).result_name, NodeAt(d.nodes, d.index[i]).result_type>>]

\* every child of a node is in the store before the node
ChildrenFirst(d) ==
    \A i \in 1..Len(d.nodes) :
        \A c \in Range(d.nodes[i].children) : PosOf(d.nodes, c) \in 1..(i - 1)

\* the nodes of the store that have the kind
OfKind(d, kind) == {n \in Range(d.nodes) : n.type = kind}

\* every ARRAY_JOIN node of before is in after, unchanged
ArrayJoinsKept(before, after) == OfKind(before, "ARRAY_JOIN") \subseteq OfKind(after, "ARRAY_JOIN")

\* the node the last successful builder call appended
LastNode == dag.nodes[Len(dag.nodes)]

LastArguments ==
    [i \in 1..Len(LastNode.children) |->
        [column |-> NodeAt(dag.nodes, LastNode.children[i]).column,
         type |-> NodeAt(dag.nodes, LastNode.children[i]).result_type,
         name |-> NodeAt(dag.nodes, LastNode.children[i]).result_name]]

\* add_function returned a node whose children all carry a constant column
AddedFunctionOfConstants ==
    /\ op = "add_function"
    /\ err = ""
    /\ \A i \in 1..Len(LastArguments) : isColumnConst(LastArguments[i].column)

\* project([(a, b)]) on the DAG of the state, for the pairs the claim is about
RenameCalls ==
    {c \in [a : Names, b : Names] :
        /\ c.a # c.b
        /\ CanCall
        /\ IndexContains(dag.nodes, dag.index, c.a)}

Renamed(c) == project(dag, <<<<c.a, c.b>>>>).dag

\* the nodes of the result that the call created
Introduced(c) == {n \in Range(Renamed(c).nodes) : n.id \notin NodeIds(dag)}

(***************************************************************************)
(* Claims.                                                                 *)
(***************************************************************************)
\* C1: every entry of the index, of the DAG and of the halves of a split,
\* refers to a node that is in the store of that DAG.
C1_IndexWellFormed ==
    /\ Range(dag.index) \subseteq NodeIds(dag)
    /\ pair.present => /\ Range(pair.first.index) \subseteq NodeIds(pair.first)
                       /\ Range(pair.second.index) \subseteq NodeIds(pair.second)

\* C2: merging the two halves of a split succeeds and gives result columns
\* with the names and types of the original DAG, in the same order.
C2_SplitMergeRoundTrip ==
    pair.present =>
        /\ merge(pair.first, pair.second).err = ""
        /\ getNamesAndTypesList(merge(pair.first, pair.second).dag) = getNamesAndTypesList(dag)

\* C3: the i-th index entry of the second half of a split has the name and
\* the type of the i-th index entry of the original DAG.
C3_SplitKeepsSchema ==
    pair.present => getNamesAndTypesList(pair.second) = getNamesAndTypesList(dag)

\* C4: in both halves of a split every child precedes its parent in the store.
C4_SplitTopological ==
    pair.present => ChildrenFirst(pair.first) /\ ChildrenFirst(pair.second)

\* C5: remove_unused_actions() run a second time changes neither the store
\* nor the inputs nor the index, on the DAG as it is and on the DAG as
\* remove_unused_actions(required_nodes) hands it on with its new index.
C5_PruneIdempotent ==
    CanCall =>
        \A required_nodes \in {dag.index} \cup SeqsUpTo(NodeIds(dag), 2) :
            LET once == removeUnusedActions([dag EXCEPT !.index = required_nodes])
            IN removeUnusedActions(once) = once

\* C5 witness: a prune has run and has folded a function in place.
C5_Witness ==
    /\ op = "remove_unused_actions"
    /\ err = ""
    /\ \E n \in Range(dag.nodes) : n.type = "COLUMN" /\ n.function_base # ""

\* C6: every prune (the three forms, the one inside project and the one inside
\* merge, here of the DAG with a copy of itself) keeps every ARRAY_JOIN node
\* in the store with its kind and its child.
C6_ArrayJoinPreserved ==
    CanCall =>
        /\ ArrayJoinsKept(dag, removeUnusedActions(dag))
        /\ \A required_nodes \in SeqsUpTo(NodeIds(dag), 2) :
              ArrayJoinsKept(dag, removeUnusedActionsNodes(dag, required_nodes))
        /\ \A required_names \in NameLists :
              LET r == removeUnusedActionsNames(dag, required_names)
              IN r.err = "" => ArrayJoinsKept(dag, r.dag)
        /\ \A projection \in Projections :
              LET r == project(dag, projection)
              IN r.err = "" => ArrayJoinsKept(dag, r.dag)
        /\ LET spliced == mergeNodes(dag, dag)
           IN spliced.err = "" => ArrayJoinsKept(spliced.dag, merge(dag, dag).dag)

\* C6 witness: a prune has run and the store holds an ARRAY_JOIN node that is
\* not in the index.
C6_Witness ==
    /\ op \in {"remove_unused_actions", "project"}
    /\ err = ""
    /\ \E n \in OfKind(dag, "ARRAY_JOIN") : n.id \notin Range(dag.index)

\* C7 as stated: over constant children the new node carries a constant column
\* iff the function is suitable and (compilation is off or the function is
\* deterministic), and then the column has size 1.
C7_FoldIffSuitable ==
    AddedFunctionOfConstants =>
        /\ isColumnConst(LastNode.column)
             <=> /\ isSuitableForConstantFolding(LastNode.function_base)
                 /\ ~dag.compile_expressions \/ isDeterministic(LastNode.function_base)
        /\ isColumnConst(LastNode.column) => LastNode.column.size = 1

\* C7 amended: over constant children the new node carries a constant column
\* iff the function is suitable and either (compilation is off or the function
\* is deterministic) and executing it gives a constant column, or the function
\* reports a result that is constant for any arguments; a column obtained by
\* folding has size 1 whatever the size of the argument columns.
C7_FoldIffConstantResult ==
    AddedFunctionOfConstants =>
        LET f == LastNode.function_base
            num_rows == IF Len(LastArguments) = 0 THEN 0 ELSE LastArguments[1].column.size
            folds == /\ ~dag.compile_expressions \/ isDeterministic(f)
                     /\ isColumnConst(execute(f, LastArguments, num_rows))
            soft == getResultIfAlwaysReturnsConstantAndHasArguments(f, LastArguments).present
        IN /\ isColumnConst(LastNode.column)
                <=> isSuitableForConstantFolding(f) /\ (folds \/ soft)
           /\ isSuitableForConstantFolding(f) /\ folds => LastNode.column.size = 1

\* C7 witness: a function was folded over a constant argument of size 0.
C7_Witness ==
    /\ AddedFunctionOfConstants
    /\ Len(LastArguments) > 0
    /\ LastArguments[1].column.size = 0
    /\ isColumnConst(LastNode.column)

\* C8 as stated: after project([(a, b)]) the index is one entry named b, an
\* ALIAS whose only child is the node a resolved to, and the call introduced
\* exactly one ALIAS node.
C8_RenameIsAlias ==
    \A c \in RenameCalls :
        LET r == Renamed(c)
            src == getNode(dag, c.a).id
        IN /\ Len(r.index) = 1
           /\ NodeAt(r.nodes, r.index[1]).result_name = c.b
           /\ NodeAt(r.nodes, r.index[1]).type = "ALIAS"
           /\ NodeAt(r.nodes, r.index[1]).children = <<src>>
           /\ Cardinality({n \in Introduced(c) : n.type = "ALIAS"}) = 1

\* C8 amended: after project([(a, b)]) the index is one entry named b, the one
\* node the call introduced; it is an ALIAS whose only child is the node a
\* resolved to, unless that node carries a constant column and allows constant
\* folding: then the new node has been folded to kind COLUMN without children.
C8_RenameIsAliasOrFolded ==
    \A c \in RenameCalls :
        LET r == Renamed(c)
            src == NodeAt(dag.nodes, getNode(dag, c.a).id)
            new == NodeAt(r.nodes, r.index[1])
        IN /\ Len(r.index) = 1
           /\ new.result_name = c.b
           /\ Introduced(c) = {new}
           /\ IF isColumnConst(src.column) /\ src.allow_constant_folding
              THEN new.type = "COLUMN" /\ new.children = <<>>
              ELSE new.type = "ALIAS" /\ new.children = <<src.id>>

\* C8 witness: a projection has returned and its single index entry is an
\* ALIAS that it named b, over an input named a.
C8_Witness ==
    /\ op = "project"
    /\ err = ""
    /\ Len(dag.index) = 1
    /\ LET new == NodeAt(dag.nodes, dag.index[1])
       IN /\ new.type = "ALIAS"
          /\ new.result_name = "b"
          /\ Len(new.children) = 1
          /\ NodeAt(dag.nodes, new.children[1]).type = "INPUT"
          /\ NodeAt(dag.nodes, new.children[1]).result_name = "a"

\* C10: after builder calls and prunes on one DAG every child of a node is in
\* the store before the node.
C10_ChildrenPredate == ChildrenFirst(dag)

\* C10 witness: a prune has left a node that has a child.
C10_Witness ==
    /\ op = "remove_unused_actions"
    /\ err = ""
    /\ \E n \in Range(dag.nodes) : n.children # <<>>

\* make_converting_actions(source, source, Position) has returned
ConvertedToItself ==
    /\ conv.pc = "done"
    /\ conv.mode = "Position"
    /\ conv.source = conv.result

\* C9 as stated: make_converting_actions(source, source, Position) returns a
\* DAG whose store is |source| INPUT nodes and whose index is these nodes in
\* source order.
C9_ConvertIdentity ==
    ConvertedToItself =>
        /\ conv.err = ""
        /\ Len(conv.dag.nodes) = Len(conv.source)
        /\ \A n \in Range(conv.dag.nodes) : n.type = "INPUT"
        /\ conv.dag.index = conv.dag.inputs
        /\ \A i \in 1..Len(conv.source) :
              /\ conv.dag.inputs[i] = i
              /\ conv.dag.nodes[i].result_name = conv.source[i].name
              /\ conv.dag.nodes[i].result_type = conv.source[i].type

\* C9 amended: make_converting_actions(source, source, Position) returns a DAG
\* whose store is |source| nodes and whose index is these nodes, the i-th with
\* the name and type of source[i]; the i-th is the i-th INPUT, except that with
\* ignore_constant_values a constant source column is a COLUMN node holding
\* the constant, and its input is not in the DAG.
C9_ConvertIdentityUpToConstants ==
    ConvertedToItself =>
        LET entry(i) == NodeAt(conv.dag.nodes, conv.dag.index[i])
            replaced(i) == conv.ignore_constant_values /\ isColumnConst(conv.source[i].column)
            kept == SelectSeq([i \in 1..Len(conv.source) |-> i], LAMBDA i : ~replaced(i))
        IN /\ conv.err = ""
           /\ Len(conv.dag.nodes) = Len(conv.source)
           /\ Len(conv.dag.index) = Len(conv.source)
           /\ Range(conv.dag.index) = NodeIds(conv.dag)
           /\ conv.dag.inputs = [k \in 1..Len(kept) |-> conv.dag.index[kept[k]]]
           /\ \A i \in 1..Len(conv.source) :
                 /\ entry(i).result_name = conv.source[i].name
                 /\ entry(i).result_type = conv.source[i].type
                 /\ entry(i).type = IF replaced(i) THEN "COLUMN" ELSE "INPUT"
                 /\ replaced(i) => entry(i).column = conv.source[i].column

\* C9 witness: a list with a constant and two columns of one name was
\* converted to itself.
C9_Witness ==
    /\ ConvertedToItself
    /\ Len(conv.source) = 2
    /\ conv.source[1].name = conv.source[2].name
    /\ isColumnConst(conv.source[1].column)
    /\ conv.err = ""

(***************************************************************************)
(* merge(first, second), read off the pair of stages and the merged DAG.   *)
(***************************************************************************)
NameOf(d, id) == NodeAt(d.nodes, id).result_name

\* how often node id is listed in index
Listed(index, id) == Cardinality({p \in 1..Len(index) : index[p] = id})

\* the position in first.index of the k-th entry that bears the name of the
\* i-th input of second, which is the k-th input of second of that name
\* (0: first.index has fewer than k entries of the name)
BoundEntry(first, second, i) ==
    LET name == NameOf(second, second.inputs[i])
        k == Cardinality({j \in 1..i : NameOf(second, second.inputs[j]) = name})
        entries == SelectSeq([p \in 1..Len(first.index) |-> p],
                             LAMBDA p : NameOf(first, first.index[p]) = name)
    IN IF k <= Len(entries) THEN entries[k] ELSE 0

\* how many inputs of second are bound to node id of first
Bound(first, second, id) ==
    Cardinality({i \in 1..Len(second.inputs) :
                    /\ BoundEntry(first, second, i) # 0
                    /\ first.index[BoundEntry(first, second, i)] = id})

\* the node of the merged DAG that node id of second has become
Merged(first, second, id) ==
    IF \E i \in 1..Len(second.inputs) :
          second.inputs[i] = id /\ BoundEntry(first, second, i) # 0
    THEN first.index[BoundEntry(first, second,
                        CHOOSE i \in 1..Len(second.inputs) : second.inputs[i] = id)]
    ELSE id + Len(first.nodes) + 1

\* C11: when second.project_input is false, the index of merge(first, second)
\* is second.index in its order, bound inputs replaced by the nodes of first
\* they are bound to, followed by first.index in its order with every consumed
\* output removed as many times as it was bound.
C11_MergeIndexOrder ==
    (op = "merge" /\ err = "" /\ ~pair.second.project_input) =>
        LET first == pair.first
            second == pair.second
            n == Len(second.index)
        IN /\ Len(dag.index) >= n
           /\ \A i \in 1..n : dag.index[i] = Merged(first, second, second.index[i])
           /\ \E removed \in SUBSET (1..Len(first.index)) :
                 /\ SubSeq(dag.index, n + 1, Len(dag.index))
                       = SelectSeq([p \in 1..Len(first.index) |->
                                       IF p \in removed THEN 0 ELSE first.index[p]],
                                   LAMBDA id : id # 0)
                 /\ \A id \in Range(first.index) :
                       Cardinality({p \in removed : first.index[p] = id})
                           = Bound(first, second, id)

\* an output of first listed twice and consumed once stays once
C11_Witness ==
    /\ op = "merge" /\ err = "" /\ ~pair.second.project_input
    /\ \E id \in Range(pair.first.index) :
          /\ Listed(pair.first.index, id) = 2
          /\ Bound(pair.first, pair.second, id) = 1
          /\ Listed(SubSeq(dag.index, Len(pair.second.index) + 1, Len(dag.index)), id) = 1

\* C12: in merge(first, second) the k-th input of second that bears a name is
\* bound to the k-th entry of first.index that bears it; every index entry and
\* every child reference of second that pointed at a bound input points at that
\* node of first, and no bound INPUT node of second is in the merged store.
C12_MergeBinding ==
    (op = "merge" /\ err = "") =>
        LET first == pair.first
            second == pair.second
            n == Len(first.nodes) + 1
        IN /\ Len(dag.index) >= Len(second.index)
           /\ \A i \in 1..Len(second.index) :
                 dag.index[i] = Merged(first, second, second.index[i])
           /\ \A p \in 1..Len(second.nodes) :
                 LET s == second.nodes[p]
                 IN s.id + n \in NodeIds(dag) =>
                       \/ NodeAt(dag.nodes, s.id + n).children
                             = [k \in 1..Len(s.children) |-> Merged(first, second, s.children[k])]
                       \/ Foldable(s) /\ NodeAt(dag.nodes, s.id + n).children = <<>>
           /\ \A i \in 1..Len(second.inputs) :
                 BoundEntry(first, second, i) # 0 => second.inputs[i] + n \notin NodeIds(dag)

\* two inputs of second of one name are bound to two nodes of first, and a
\* node of second has the node of first as its child that the second is bound to
C12_Witness ==
    /\ op = "merge" /\ err = ""
    /\ \E i, j \in 1..Len(pair.second.inputs) :
          /\ i < j
          /\ NameOf(pair.second, pair.second.inputs[i]) = NameOf(pair.second, pair.second.inputs[j])
          /\ BoundEntry(pair.first, pair.second, i) # 0
          /\ BoundEntry(pair.first, pair.second, j) # 0
          /\ pair.first.index[BoundEntry(pair.first, pair.second, i)]
                # pair.first.index[BoundEntry(pair.first, pair.second, j)]
          /\ \E p \in 1..Len(pair.second.nodes) :
                /\ pair.second.nodes[p].children = <<pair.second.inputs[j]>>
                /\ pair.second.nodes[p].id + Len(pair.first.nodes) + 1 \in NodeIds(dag)
                /\ NodeAt(dag.nodes, pair.second.nodes[p].id + Len(pair.first.nodes) + 1).children
                      = <<pair.first.index[BoundEntry(pair.first, pair.second, j)]>>

\* the inputs of second that no entry of first.index is left for, as nodes of
\* the merged DAG, in the order of second.inputs
Unbound(first, second) ==
    LET unbound == SelectSeq([i \in 1..Len(second.inputs) |-> i],
                             LAMBDA i : BoundEntry(first, second, i) = 0)
    IN [k \in 1..Len(unbound) |-> second.inputs[unbound[k]] + Len(first.nodes) + 1]

\* node id is an index entry of d or a child of a node of d
Referenced(d, id) ==
    \/ id \in Range(d.index)
    \/ \E p \in 1..Len(d.nodes) : id \in Range(d.nodes[p].children)

\* C13 as stated: if an input of second has no unconsumed entry of its name in
\* first.index, merge fails with LogicalError when first.project_input is true;
\* otherwise every such input is an input of the merged DAG, after all inputs
\* of first and in the order of second.inputs.
C13_MergeStageBoundary ==
    (op = "merge" /\ Unbound(pair.first, pair.second) # <<>>) =>
        IF pair.first.project_input
        THEN err = "LOGICAL_ERROR"
        ELSE /\ err = ""
             /\ dag.inputs = SelectSeq(dag.inputs, LAMBDA id : id <= Len(pair.first.nodes))
                                \o Unbound(pair.first, pair.second)

\* C13, amended: merge fails with LogicalError exactly when first.project_input
\* is true and an input of second has no unconsumed entry of its name in
\* first.index.  Otherwise the inputs of the merged DAG are the inputs of first
\* followed by the unbound inputs of second in the order of second.inputs, of
\* both only those that the final remove_unused_actions keeps: the ones that
\* are an index entry or a child of a node of the merged DAG.
C13_MergeStageBoundaryAfterPrune ==
    op = "merge" =>
        LET first == pair.first
            second == pair.second
            kept(id) == Referenced(dag, id)
        IN /\ err = "LOGICAL_ERROR" <=> (first.project_input /\ Unbound(first, second) # <<>>)
           /\ err \in {"", "LOGICAL_ERROR"}
           /\ err = "" =>
                 dag.inputs = SelectSeq(first.inputs, kept)
                                 \o SelectSeq(Unbound(first, second), kept)

\* first is not projected; of the unbound inputs of second one is kept, after
\* an input of first, and one is dropped
C13_Witness ==
    /\ op = "merge" /\ err = "" /\ ~pair.first.project_input
    /\ \E id \in Range(Unbound(pair.first, pair.second)) : ~Referenced(dag, id)
    /\ Len(dag.inputs) = 2
    /\ dag.inputs[1] \in Range(pair.first.inputs)
    /\ dag.inputs[2] \in Range(Unbound(pair.first, pair.second))

\* C14: whenever make_converting_actions(source, result, mode,
\* ignore_constant_values) returns, the index of the returned DAG has |result|
\* entries, the i-th with the name and the type of result[i], and
\* project_input is true.
C14_ConvertSchema ==
    (conv.pc = "done" /\ conv.err = "") =>
        /\ Len(conv.dag.index) = Len(conv.result)
        /\ \A i \in 1..Len(conv.result) :
              /\ NodeAt(conv.dag.nodes, conv.dag.index[i]).result_name = conv.result[i].name
              /\ NodeAt(conv.dag.nodes, conv.dag.index[i]).result_type = conv.result[i].type
        /\ conv.dag.project_input

\* a conversion by position returned that had to change the type of one column
\* and the name of the other
C14_Witness ==
    /\ conv.pc = "done" /\ conv.err = "" /\ conv.mode = "Position"
    /\ Len(conv.result) = 2
    /\ conv.result[1].type # conv.source[1].type
    /\ conv.result[1].name = conv.source[1].name
    /\ conv.result[2].name # conv.source[2].name
    /\ conv.result[2].type = conv.source[2].type

(***************************************************************************)
(* make_converting_actions in mode Name, read off the call and its result. *)
(***************************************************************************)
\* the position in source of the k-th column that bears the name of result[i],
\* which is the k-th column of result of that name (0: source has fewer)
SourceOf(source, result, i) ==
    LET k == Cardinality({j \in 1..i : result[j].name = result[i].name})
        named == SelectSeq([p \in 1..Len(source) |-> p],
                           LAMBDA p : source[p].name = result[i].name)
    IN IF k <= Len(named) THEN named[k] ELSE 0

\* the INPUT node that node id of d is computed from: the end of the chain of
\* first children (0: the chain ends in a node of another kind)
RECURSIVE InputUnder(_, _)
InputUnder(d, id) ==
    LET node == NodeAt(d.nodes, id)
    IN IF node.type = "INPUT" THEN id
       ELSE IF node.children = <<>> THEN 0
       ELSE InputUnder(d, node.children[1])

\* result has more columns of some name than source
MissingInSource(source, result) ==
    \E i \in 1..Len(result) : SourceOf(source, result, i) = 0

\* C15 as stated: in mode Name the k-th result column of a name is derived
\* from the k-th source column of that name, and a call whose result has more
\* columns of a name than source fails with ThereIsNoColumn.
C15_ConvertByName ==
    (conv.pc = "done" /\ conv.mode = "Name") =>
        IF MissingInSource(conv.source, conv.result)
        THEN conv.err = "THERE_IS_NO_COLUMN"
        ELSE conv.err = "" =>
                LET d == conv.dag
                    derived == {i \in 1..Len(conv.result) : InputUnder(d, d.index[i]) # 0}
                    used == {SourceOf(conv.source, conv.result, i) : i \in derived}
                    rank(p) == Cardinality({q \in used : q <= p})
                IN /\ Len(d.inputs) = Cardinality(used)
                   /\ \A i \in derived :
                         LET p == SourceOf(conv.source, conv.result, i)
                             input == InputUnder(d, d.index[i])
                         IN /\ input = d.inputs[rank(p)]
                            /\ NodeAt(d.nodes, input).result_name = conv.source[p].name
                            /\ NodeAt(d.nodes, input).result_type = conv.source[p].type
                            /\ isColumnConst(NodeAt(d.nodes, input).column)
                                  = isColumnConst(conv.source[p].column)

\* the constant check throws for result[i]: the result column is constant and
\* its source column is not, or holds another value that is not ignored
ConstantMismatch(source, result, i, ignore_constant_values) ==
    LET p == SourceOf(source, result, i)
    IN /\ p # 0
       /\ isColumnConst(result[i].column)
       /\ \/ ~isColumnConst(source[p].column)
          \/ ~ignore_constant_values /\ result[i].column.val # source[p].column.val

\* C15, amended: in mode Name the k-th result column of a name is derived from
\* the k-th source column of that name.  A call whose result has more columns
\* of a name than source fails: with ThereIsNoColumn, unless a result column
\* before the first one that is left without a source column fails the
\* constant check, and then with IllegalColumn.
C15_ConvertByNameInResultOrder ==
    (conv.pc = "done" /\ conv.mode = "Name") =>
        IF MissingInSource(conv.source, conv.result)
        THEN LET m == CHOOSE i \in 1..Len(conv.result) :
                         /\ SourceOf(conv.source, conv.result, i) = 0
                         /\ \A j \in 1..(i - 1) : SourceOf(conv.source, conv.result, j) # 0
             IN conv.err = IF \E j \in 1..(m - 1) :
                                  ConstantMismatch(conv.source, conv.result, j,
                                                   conv.ignore_constant_values)
                           THEN "ILLEGAL_COLUMN" ELSE "THERE_IS_NO_COLUMN"
        ELSE conv.err = "" =>
                LET d == conv.dag
                    derived == {i \in 1..Len(conv.result) : InputUnder(d, d.index[i]) # 0}
                    used == {SourceOf(conv.source, conv.result, i) : i \in derived}
                    rank(p) == Cardinality({q \in used : q <= p})
                IN /\ Len(d.inputs) = Cardinality(used)
                   /\ \A i \in derived :
                         LET p == SourceOf(conv.source, conv.result, i)
                             input == InputUnder(d, d.index[i])
                         IN /\ input = d.inputs[rank(p)]
                            /\ NodeAt(d.nodes, input).result_name = conv.source[p].name
                            /\ NodeAt(d.nodes, input).result_type = conv.source[p].type
                            /\ isColumnConst(NodeAt(d.nodes, input).column)
                                  = isColumnConst(conv.source[p].column)

\* two result columns of one name were derived from two source columns of
\* that name that differ in type, the first from the first
C15_Witness ==
    /\ conv.pc = "done" /\ conv.mode = "Name" /\ conv.err = ""
    /\ Len(conv.result) = 2 /\ Len(conv.source) = 2
    /\ conv.result[1].name = conv.result[2].name
    /\ conv.source[1].name = conv.result[1].name
    /\ conv.source[2].name = conv.result[1].name
    /\ conv.source[1].type # conv.source[2].type
    /\ InputUnder(conv.dag, conv.dag.index[1]) = conv.dag.inputs[1]
    /\ InputUnder(conv.dag, conv.dag.index[2]) = conv.dag.inputs[2]

(***************************************************************************)
(* The builders that call addNode with can_replace = false.                *)
(***************************************************************************)
\* the calls of the builders on d: what the call returns, the result_name of
\* the node it builds, and whether it gets as far as addNode
BuilderCalls(d) ==
    {[r |-> addInput(d, name, type, NoColumn, FALSE), name |-> name, reaches |-> TRUE] :
        name \in Names, type \in Types}
    \cup {[r |-> addColumn(d, name, "Int", col, FALSE), name |-> name, reaches |-> TRUE] :
        name \in Names, col \in LiteralColumns}
    \cup {[r |-> addAlias(d, name, alias, FALSE), name |-> alias,
           reaches |-> IndexContains(d.nodes, d.index, name)] :
        name \in Names, alias \in Names}
    \cup {[r |-> addArrayJoin(d, source_name, result_name), name |-> result_name,
           reaches |-> /\ IndexContains(d.nodes, d.index, source_name)
                       /\ NestedType(NodeAt(d.nodes, getNode(d, source_name).id).result_type) # ""] :
        source_name \in Names, result_name \in Names}
    \cup {[r |-> addFunction(d, call[1], call[2], result_name, compile_expressions),
           name |-> result_name,
           reaches |-> /\ \A i \in 1..Len(call[2]) : IndexContains(d.nodes, d.index, call[2][i])
                       /\ canBuild(call[1], call[2])] :
        call \in FunctionCalls, result_name \in Names, compile_expressions \in BOOLEAN}

\* C16: a builder call that reaches add_node with can_replace = false and a
\* result_name that is in the index fails with DuplicateColumn and leaves the
\* store, the inputs and the index as they were; the check is made against the
\* index: with a name that is not in the index the call succeeds.
C16_DuplicateRejected ==
    CanCall =>
        \A c \in BuilderCalls(dag) :
            c.reaches =>
                IF IndexContains(dag.nodes, dag.index, c.name)
                THEN /\ c.r.err = "DUPLICATE_COLUMN"
                     /\ c.r.dag.nodes = dag.nodes
                     /\ c.r.dag.inputs = dag.inputs
                     /\ c.r.dag.index = dag.index
                ELSE c.r.err = ""

\* add_input("a", T); add_input("a", T): the second call failed and the DAG
\* is the one the first call made
C16_Witness ==
    /\ op = "add_input" /\ err = "DUPLICATE_COLUMN"
    /\ Len(dag.nodes) = 1
    /\ dag.nodes[1].type = "INPUT" /\ dag.nodes[1].result_name = "a"
    /\ dag.inputs = <<1>> /\ dag.index = <<1>>

\* C17: in every reachable DAG state a node carries function handles (they
\* are set together, function_base stands for the three) if and only if its
\* kind is FUNCTION.
C17_FunctionHandlesMatchKind ==
    \A i \in 1..Len(dag.nodes) :
        dag.nodes[i].function_base # "" <=> dag.nodes[i].type = "FUNCTION"

(***************************************************************************)
(* The two halves of a split, read off pair; dag is the DAG that was split.*)
(***************************************************************************)
\* the nodes of d that node id is computed from: its transitive children
Below(d, id) == NeededBySplit(d, {id}) \ {id}

\* the INPUT nodes of d that bear the name
InputsNamed(d, name) ==
    {id \in NodeIds(d) : NodeAt(d.nodes, id).type = "INPUT" /\ NameOf(d, id) = name}

\* C18: after split_before_array_join(array_joined_columns) no non-INPUT node
\* of first_dag has among its transitive children an INPUT whose name is in
\* array_joined_columns; every input of the original DAG whose name is in
\* array_joined_columns is an INPUT in the index of first_dag and an INPUT
\* among the inputs of second_dag; project_input of first_dag is false.
C18_SplitBeforeArrayJoin ==
    (pair.present /\ op = "split_before_array_join") =>
        \A array_joined_columns \in SUBSET Names :
            LET res == splitActionsBeforeArrayJoin(dag, array_joined_columns)
                first == pair.first
                second == pair.second
            IN (res.first = first /\ res.second = second) =>
                  /\ \A id \in NodeIds(first) :
                        NodeAt(first.nodes, id).type # "INPUT" =>
                           \A child \in Below(first, id) :
                              ~(/\ NodeAt(first.nodes, child).type = "INPUT"
                                /\ NameOf(first, child) \in array_joined_columns)
                  /\ \A name \in array_joined_columns :
                        LET n == Cardinality({i \in 1..Len(dag.inputs) :
                                                 NameOf(dag, dag.inputs[i]) = name})
                        IN /\ Cardinality(InputsNamed(first, name) \cap Range(first.index)) >= n
                           /\ Cardinality(InputsNamed(first, name) \cap Range(first.inputs)) >= n
                           /\ Cardinality(InputsNamed(second, name) \cap Range(second.inputs)) >= n
                  /\ ~first.project_input

\* a projected DAG with a node computed from input a was split with a among
\* the array-joined columns: first_dag passes a through and has nothing but
\* inputs, the node computed from a is in second_dag
C18_Witness ==
    /\ pair.present /\ op = "split_before_array_join"
    /\ dag.project_input
    /\ ~pair.first.project_input
    /\ \E id \in InputsNamed(dag, "a") : id \in Range(dag.inputs)
    /\ InputsNamed(pair.first, "a") \cap Range(pair.first.index) # {}
    /\ \E id \in NodeIds(pair.second) :
          /\ NodeAt(pair.second.nodes, id).type # "INPUT"
          /\ Below(pair.second, id) \cap InputsNamed(pair.second, "a") # {}
    /\ \A id \in NodeIds(pair.first) : NodeAt(pair.first.nodes, id).type = "INPUT"

\* node n of one DAG is a copy of node o of another: all but the address and
\* the children, which are addresses, is equal
CopyOf(n, o) ==
    [n EXCEPT !.id = 0, !.children = <<>>] = [o EXCEPT !.id = 0, !.children = <<>>]

\* C19: split_for_filter(column_name) fails with LogicalError if no index
\* entry bears column_name; otherwise every non-INPUT node of first_dag is a
\* copy of the filter node or of one of its transitive children, the index of
\* first_dag has an entry named column_name with the type of the filter node,
\* and the entry of second_dag's index for column_name, the one in the place
\* of the filter node, is an INPUT of that name.
C19_SplitForFilter ==
    /\ CanCall =>
          \A column_name \in Names :
              (\A i \in 1..Len(dag.index) : NameOf(dag, dag.index[i]) # column_name)
                  => splitActionsForFilter(dag, column_name).err = "LOGICAL_ERROR"
    /\ (pair.present /\ op = "split_for_filter") =>
          \A column_name \in Names :
              LET res == splitActionsForFilter(dag, column_name)
                  first == pair.first
                  second == pair.second
                  it == CHOOSE i \in 1..Len(dag.index) :
                           /\ NameOf(dag, dag.index[i]) = column_name
                           /\ \A j \in 1..(i - 1) : NameOf(dag, dag.index[j]) # column_name
                  filter == dag.index[it]
              IN (res.err = "" /\ res.first = first /\ res.second = second) =>
                    /\ \A id \in NodeIds(first) :
                          NodeAt(first.nodes, id).type # "INPUT" =>
                             \E o \in {filter} \cup Below(dag, filter) :
                                CopyOf(NodeAt(first.nodes, id), NodeAt(dag.nodes, o))
                    /\ \E e \in Range(first.index) :
                          /\ NameOf(first, e) = column_name
                          /\ NodeAt(first.nodes, e).result_type
                                = NodeAt(dag.nodes, filter).result_type
                    /\ Len(second.index) = Len(dag.index)
                    /\ \A i \in 1..Len(dag.index) :
                          dag.index[i] = filter =>
                             /\ NodeAt(second.nodes, second.index[i]).type = "INPUT"
                             /\ NameOf(second, second.index[i]) = column_name

\* C20: remove_unused_input(name) fails with LogicalError and leaves store,
\* inputs and index unchanged when no input bears the name or a node of the
\* store has that input as a child; otherwise the input is gone from the
\* store, the inputs and the index, and all other nodes, inputs and index
\* entries are unchanged and in their order.
C20_RemoveUnusedInput ==
    CanCall =>
        \A column_name \in Names :
            LET r == removeUnusedInput(dag, column_name)
                named == SelectSeq(dag.inputs, LAMBDA id : NameOf(dag, id) = column_name)
                input == Head(named)
                others(s) == SelectSeq(s, LAMBDA id : id # input)
            IN IF \/ named = <<>>
                  \/ \E i \in 1..Len(dag.nodes) : input \in Range(dag.nodes[i].children)
               THEN /\ r.err = "LOGICAL_ERROR"
                    /\ r.dag.nodes = dag.nodes
                    /\ r.dag.inputs = dag.inputs
                    /\ r.dag.index = dag.index
               ELSE /\ r.err = ""
                    /\ r.dag.nodes = SelectSeq(dag.nodes, LAMBDA n : n.id # input)
                    /\ r.dag.inputs = others(dag.inputs)
                    /\ r.dag.index = others(dag.index)

(***************************************************************************)
(* Projection, lookup and restore on the DAG of the state.                 *)
(***************************************************************************)
\* the name the i-th column of a projection goes out under
OutputName(projection, i) ==
    IF projection[i][2] # "" THEN projection[i][2] ELSE projection[i][1]

\* the projections a claim is checked with: those of the actions, and the
\* empty one
ProjectCalls == Projections \cup {<<>>}

\* C21: project(P) with every existing_name in the index returns with an
\* index of exactly |P| entries, the i-th named P[i].output_name if that is
\* not empty and P[i].existing_name otherwise, with the type of the node that
\* P[i].existing_name resolved to in the index as it was before the call;
\* project_input and projected_output are both true.
C21_ProjectIsIndex ==
    CanCall =>
        \A projection \in ProjectCalls :
            (\A i \in 1..Len(projection) :
                IndexContains(dag.nodes, dag.index, projection[i][1]))
            => LET r == project(dag, projection)
               IN /\ r.err = ""
                  /\ Len(r.dag.index) = Len(projection)
                  /\ \A i \in 1..Len(projection) :
                        LET entry == NodeAt(r.dag.nodes, r.dag.index[i])
                            resolved == NodeAt(dag.nodes, getNode(dag, projection[i][1]).id)
                        IN /\ r.dag.index[i] \in NodeIds(r.dag)
                           /\ entry.result_name = OutputName(projection, i)
                           /\ entry.result_type = resolved.result_type
                  /\ r.dag.project_input
                  /\ r.dag.projected_output

\* C21 witness: project([(a, b), (a, "")]) has returned on a DAG of one input
\* a: the index is an ALIAS named b over the input, then the input itself.
C21_Witness ==
    /\ op = "project"
    /\ err = ""
    /\ dag.project_input /\ dag.projected_output
    /\ Len(dag.index) = 2
    /\ LET first == NodeAt(dag.nodes, dag.index[1])
           second == NodeAt(dag.nodes, dag.index[2])
       IN /\ first.type = "ALIAS" /\ first.result_name = "b"
          /\ first.children = <<second.id>>
          /\ second.type = "INPUT" /\ second.result_name = "a"

\* C22: try_restore_column(name) changes neither the store nor the inputs;
\* when the index has an entry of the name it returns true and changes
\* nothing; otherwise, when nodes of the store bear the name, it returns true
\* and the index gains the last of them in store order (the entries it had
\* stay, in their order); when no node bears the name it returns false and
\* changes nothing.
C22_TryRestoreColumn ==
    CanCall =>
        \A column_name \in Names :
            LET r == tryRestoreColumn(dag, column_name)
                bearing == {i \in 1..Len(dag.nodes) : dag.nodes[i].result_name = column_name}
                last == dag.nodes[CHOOSE i \in bearing : \A j \in bearing : j <= i].id
            IN /\ r.dag.nodes = dag.nodes
               /\ r.dag.inputs = dag.inputs
               /\ IF \E i \in 1..Len(dag.index) : NameOf(dag, dag.index[i]) = column_name
                  THEN r.ret /\ r.dag = dag
                  ELSE IF bearing # {}
                       THEN /\ r.ret
                            /\ last \in Range(r.dag.index)
                            /\ SelectSeq(r.dag.index, LAMBDA id : id # last) = dag.index
                       ELSE ~r.ret /\ r.dag = dag

\* C22 witness: try_restore_column has returned; two nodes of the store bear
\* a name, the earlier one is not in the index and the later one is the entry
\* at the end of the index, behind an entry of a node that is later in the
\* store.
C22_Witness ==
    /\ op = "try_restore_column"
    /\ err = ""
    /\ Len(dag.index) >= 2
    /\ \E i, j \in 1..Len(dag.nodes) :
          /\ i < j
          /\ dag.nodes[i].result_name = dag.nodes[j].result_name
          /\ dag.nodes[i].id \notin Range(dag.index)
          /\ dag.index[Len(dag.index)] = dag.nodes[j].id
          /\ PosOf(dag.nodes, dag.index[Len(dag.index) - 1]) > j

(***************************************************************************)
(* Invariants of the DAG and of the halves of a split.                     *)
(***************************************************************************)
\* name and type of the nodes a list of d refers to, in order
Schema(d, list) ==
    [i \in 1..Len(list) |->
        <<NodeAt(d.nodes, list[i]).result_name, NodeAt(d.nodes, list[i]).result_type>>]

\* C23: after a split of a reachable DAG, first_dag's index and second_dag's
\* inputs have the same length and agree entry by entry in result_name and
\* result_type, and first_dag's inputs are INPUT nodes with the names and
\* types of the inputs of the DAG that was split, in the same order.
C23_SplitBoundaryAligned ==
    pair.present =>
        /\ Schema(pair.first, pair.first.index) = Schema(pair.second, pair.second.inputs)
        /\ Schema(pair.first, pair.first.inputs) = Schema(dag, dag.inputs)
        /\ \A i \in 1..Len(pair.first.inputs) :
              NodeAt(pair.first.nodes, pair.first.inputs[i]).type = "INPUT"

\* the column of the node was set by soft constant marking
SoftConstant(n) ==
    /\ n.function_base # ""
    /\ n.column.present
    /\ n.column = getResultIfAlwaysReturnsConstantAndHasArguments(n.function_base, n.children)

\* the node is a soft constant or is built on top of one
OverSoftConstant(d, n) ==
    \/ SoftConstant(n)
    \/ \E c \in Below(d, n.id) : SoftConstant(NodeAt(d.nodes, c))

\* C24: a node whose column was set by soft constant marking is a FUNCTION
\* with allow_constant_folding = false; every node built on top of it has
\* allow_constant_folding = false; and a prune (any form) leaves each of
\* these nodes, if it keeps it, with its kind and its children.
C24_SoftConstantsKept ==
    NoDangling(dag) =>
        /\ \A n \in Range(dag.nodes) :
              /\ SoftConstant(n) => n.type = "FUNCTION"
              /\ OverSoftConstant(dag, n) => ~n.allow_constant_folding
        /\ \A required_nodes \in {dag.index} \cup SeqsUpTo(NodeIds(dag), 2) :
              LET after == removeUnusedActionsNodes(dag, required_nodes)
              IN \A n \in Range(dag.nodes) :
                    (OverSoftConstant(dag, n) /\ n.id \in NodeIds(after))
                    => NodeAt(after.nodes, n.id) = n

\* C24 witness: a prune has run and has kept a soft constant with its child
\* and an ALIAS on top of it that carries the constant column.
C24_Witness ==
    /\ op = "remove_unused_actions"
    /\ err = ""
    /\ \E n, m \in Range(dag.nodes) :
          /\ SoftConstant(n) /\ n.type = "FUNCTION" /\ Len(n.children) = 1
          /\ m.type = "ALIAS" /\ m.children = <<n.id>>
          /\ isColumnConst(m.column) /\ ~m.allow_constant_folding

\* the inputs list of d holds the INPUT nodes of the store, each once
InputsConsistent(d) ==
    /\ \A i, j \in 1..Len(d.inputs) : d.inputs[i] = d.inputs[j] => i = j
    /\ Range(d.inputs) = {n.id : n \in OfKind(d, "INPUT")}

\* the entries of list that are inputs of d, in the order of list
Surviving(list, d) == SelectSeq(list, LAMBDA id : id \in Range(d.inputs))

\* the inputs of after that were in list, in the order of after
Survivors(list, after) == SelectSeq(after.inputs, LAMBDA id : id \in Range(list))

\* C25: in every reachable DAG, and in the halves of a split and the result
\* of a merge, the inputs list holds exactly the INPUT nodes of the store,
\* each once; a prune, remove_unused_input and merge keep the inputs that
\* survive in their relative order.
C25_InputsConsistent ==
    /\ InputsConsistent(dag)
    /\ pair.present =>
          /\ InputsConsistent(pair.first)
          /\ InputsConsistent(pair.second)
          /\ LET m == merge(pair.first, pair.second)
                 second == Moved(pair.second, Len(pair.first.nodes) + 1)
             IN m.err = "" =>
                   /\ InputsConsistent(m.dag)
                   /\ Range(m.dag.inputs) \subseteq Range(pair.first.inputs) \cup Range(second.inputs)
                   /\ Survivors(pair.first.inputs, m.dag) = Surviving(pair.first.inputs, m.dag)
                   /\ Survivors(second.inputs, m.dag) = Surviving(second.inputs, m.dag)
    /\ CanCall =>
          /\ \A required_nodes \in {dag.index} \cup SeqsUpTo(NodeIds(dag), 2) :
                LET after == removeUnusedActionsNodes(dag, required_nodes)
                IN after.inputs = Surviving(dag.inputs, after)
          /\ \A column_name \in Names :
                LET after == removeUnusedInput(dag, column_name).dag
                IN after.inputs = Surviving(dag.inputs, after)

\* C25 witness: merge has returned a DAG of two inputs, a before b, that are
\* the INPUT nodes of its store.
C25_Witness ==
    /\ op = "merge"
    /\ err = ""
    /\ Len(dag.inputs) = 2
    /\ NameOf(dag, dag.inputs[1]) = "a"
    /\ NameOf(dag, dag.inputs[2]) = "b"
    /\ InputsConsistent(dag)

\* every child reference of d is a node of the store of d
ChildrenInStore(d) ==
    \A i \in 1..Len(d.nodes) : Range(d.nodes[i].children) \subseteq NodeIds(d)

\* C26: in every reachable DAG (after builders, prunes with the in-place
\* fold, remove_unused_input, merge, clone) and in the two halves of a split,
\* every child reference of every node of the store is a node of the same
\* store.
C26_NoDanglingChildren ==
    /\ ChildrenInStore(dag)
    /\ pair.present => ChildrenInStore(pair.first) /\ ChildrenInStore(pair.second)

\* C26 witness: clone has returned a DAG in which a node has a child.
C26_Witness ==
    /\ op = "clone"
    /\ err = ""
    /\ \E n \in Range(dag.nodes) : n.children # <<>>
    /\ ChildrenInStore(dag)

\* the store, the inputs and the index of after are those of before
SameGraph(before, after) ==
    /\ after.nodes = before.nodes
    /\ after.inputs = before.inputs
    /\ after.index = before.index

\* C27: add_aliases and project with a pair whose existing_name is not in
\* the index, and remove_unused_actions(required_names) with a name that is
\* not in the index, fail with UnknownIdentifier and leave the store, the
\* inputs and the index as they were before the call.
C27_FailedLookupKeepsDAG ==
    CanCall =>
        /\ \A aliases \in Projections :
              (\E i \in 1..Len(aliases) :
                  \A k \in 1..Len(dag.index) : NameOf(dag, dag.index[k]) # aliases[i][1])
              => /\ addAliases(dag, aliases).err = "UNKNOWN_IDENTIFIER"
                 /\ SameGraph(dag, addAliases(dag, aliases).dag)
                 /\ project(dag, aliases).err = "UNKNOWN_IDENTIFIER"
                 /\ SameGraph(dag, project(dag, aliases).dag)
        /\ \A required_names \in NameLists :
              (\E i \in 1..Len(required_names) :
                  \A k \in 1..Len(dag.index) : NameOf(dag, dag.index[k]) # required_names[i])
              => /\ removeUnusedActionsNames(dag, required_names).err = "UNKNOWN_IDENTIFIER"
                 /\ SameGraph(dag, removeUnusedActionsNames(dag, required_names).dag)

\* C27 witness: add_aliases has thrown UnknownIdentifier on a DAG whose index
\* has a and not b, and the DAG is one input a without an alias.
C27_Witness ==
    /\ op = "add_aliases"
    /\ err = "UNKNOWN_IDENTIFIER"
    /\ Len(dag.nodes) = 1
    /\ dag.nodes[1].type = "INPUT" /\ dag.nodes[1].result_name = "a"
    /\ dag.inputs = <<1>> /\ dag.index = <<1>>
====
